---- MODULE Spec2Model ----
(***************************************************************************)
(* Model of the JIRA / GitHub retrieval pipeline (main and the helpers it  *)
(* calls: Keychain, JIRA, GitHub, System, showRichSummaryNotification).    *)
(* One behaviour is one run of main(options).  Everything outside the      *)
(* script (keychain, dialogs, curl, browser, shell, Spotlight) is an       *)
(* environment whose outcome is chosen where the code calls it.            *)
(* app.displayNotification is taken as the fire-and-forget notifier it is  *)
(* used as: it does not throw.  main is called with an options object or   *)
(* with nothing, as all its callers do.                                    *)
(* Spec is that run.  SummarySpec, ConfigSpec and SaveTokenSpec apply      *)
(* showRichSummaryNotification, the merge of the options and               *)
(* Keychain.saveToken on their own, WrapperSpec is the invocations of      *)
(* jira-github-integration.sh around the script, LegacySpec is the pull    *)
(* request fetch of JIRAGitHubIntegrationShortcut.js, TestSpec is the test *)
(* suite tests/test-integration.js, and FairSpec is Spec run to its end.   *)
(***************************************************************************)
EXTENDS Integers, Sequences, FiniteSets, TLC

VARIABLES
  pc,           \* position of the run inside main
  options,      \* the argument of main
  config,       \* the merged configuration (main's const config)
  kc,           \* position inside Keychain.getPassword and what it calls
  kcOp,         \* the operation argument of the pending showKeychainError
  lookup,       \* per side: how the keychain lookup ended
  token,        \* per side: the value Keychain.getPassword returned
  jiraResp,     \* what the tracker answered (status and body text)
  githubResp,   \* what the code host answered
  jiraData,     \* main's const jiraData
  githubData,   \* main's const githubData
  combinedData, \* main's const combinedData
  savedFilePath,\* main's const savedFilePath
  calls,        \* every call to the outside world, in order
  error,        \* the error being thrown, if any
  result,       \* how the promise returned by main settled
  sh,           \* the shell wrapper around the script: its variables
  suite         \* the test suite tests/test-integration.js: its run

vars == <<pc, options, config, kc, kcOp, lookup, token, jiraResp, githubResp,
          jiraData, githubData, combinedData, savedFilePath, calls, error,
          result, sh, suite>>

-----------------------------------------------------------------------------
(* Bounds *)

\* longest issue list and longest pull request list an upstream returns
MaxItems == 2

-----------------------------------------------------------------------------
(* JavaScript values *)

Undefined == "undefined"
NoError == <<>>
Sides == {"jira", "github"}

Range(s) == {s[i] : i \in 1..Len(s)}

\* `${n}` for the numbers that occur
NumStr(n) == <<"0", "1", "2", "3", "4", "5", "6", "7", "8", "9">>[n + 1]

-----------------------------------------------------------------------------
(* CONFIG *)

CONFIG ==
  [jira |-> [baseUrl |-> "https://jira.example.com/rest/api/2/",
             keychainItem |-> "JIRA API Token",
             project |-> "MyProject"],
   github |-> [baseUrl |-> "https://api.github.com/",
               keychainItem |-> "GitHub API Token",
               defaultUsername |-> "myusername",
               defaultRepo |-> "myrepo"],
   output |-> [filePath |-> "~/Documents/JIRA-GitHub-Data.json",
               appName |-> "TextEdit",
               openInBrowser |-> TRUE,
               enableSpotlightIndexing |-> TRUE]]

KeychainItem(side) ==
  IF side = "jira" THEN CONFIG.jira.keychainItem ELSE CONFIG.github.keychainItem

-----------------------------------------------------------------------------
(* The inputs of a run *)

\* a boolean option is given as true, given as false, or not given
OptBool == {Undefined, "true", "false"}

Truthy(v) == v \notin {Undefined, "false", ""}

OptionSpace ==
  [githubUsername : {Undefined},
   githubRepo : {Undefined},
   openInBrowser : OptBool,
   outputFilePath : {Undefined, "/tmp/out.json"},
   outputApp : {Undefined},
   summaryOnly : OptBool,
   richNotifications : OptBool]

\* a merge that uses `||` for the two boolean options as well
MergeOptions_OrForBooleans(o) ==
  [githubUsername |-> IF Truthy(o.githubUsername) THEN o.githubUsername
                      ELSE CONFIG.github.defaultUsername,
   githubRepo |-> IF Truthy(o.githubRepo) THEN o.githubRepo
                  ELSE CONFIG.github.defaultRepo,
   openInBrowser |-> IF Truthy(o.openInBrowser) THEN TRUE
                     ELSE CONFIG.output.openInBrowser,
   outputFilePath |-> IF Truthy(o.outputFilePath) THEN o.outputFilePath
                      ELSE CONFIG.output.filePath,
   outputApp |-> IF Truthy(o.outputApp) THEN o.outputApp
                 ELSE CONFIG.output.appName,
   summaryOnly |-> IF Truthy(o.summaryOnly) THEN TRUE ELSE FALSE,
   richNotifications |-> IF Truthy(o.richNotifications) THEN TRUE ELSE TRUE]

\* main's merge of the options over the defaults
MergeOptions(o) ==
  [githubUsername |-> IF Truthy(o.githubUsername) THEN o.githubUsername
                      ELSE CONFIG.github.defaultUsername,
   githubRepo |-> IF Truthy(o.githubRepo) THEN o.githubRepo
                  ELSE CONFIG.github.defaultRepo,
   openInBrowser |-> IF o.openInBrowser # Undefined THEN Truthy(o.openInBrowser)
                     ELSE CONFIG.output.openInBrowser,
   outputFilePath |-> IF Truthy(o.outputFilePath) THEN o.outputFilePath
                      ELSE CONFIG.output.filePath,
   outputApp |-> IF Truthy(o.outputApp) THEN o.outputApp
                 ELSE CONFIG.output.appName,
   summaryOnly |-> IF Truthy(o.summaryOnly) THEN TRUE ELSE FALSE,
   richNotifications |-> IF o.richNotifications # Undefined
                         THEN Truthy(o.richNotifications) ELSE TRUE]

NoConfig == MergeOptions([githubUsername |-> Undefined, githubRepo |-> Undefined,
                          openInBrowser |-> Undefined, outputFilePath |-> Undefined,
                          outputApp |-> Undefined, summaryOnly |-> Undefined,
                          richNotifications |-> Undefined])

-----------------------------------------------------------------------------
(* Upstream records and responses *)

Issue(k, present, s) == [key |-> k, fields |-> [present |-> present, summary |-> s]]

\* the issue records an upstream answer is built from: a well-formed one and
\* one without its fields object
IssueRecords ==
  {Issue("PROJ-1", TRUE, "first"), Issue("PROJ-2", FALSE, Undefined)}

PullRequest(n, t, u) == [number |-> n, title |-> t, html_url |-> u]

\* the pull request records: a well-formed one and one without html_url
PullRequestRecords ==
  {PullRequest("1", "one", "https://github.com/o/r/pull/1"),
   PullRequest("2", "two", Undefined)}

SeqsUpTo(S, n) == UNION {[1..k -> S] : k \in 0..n}

\* a response body: what its text is (a JSON object, a JSON array, the JSON
\* null, or text that is no JSON), whether the object has an issues member,
\* and the records of the list it carries
Body(json, hasIssues, items) == [json |-> json, hasIssues |-> hasIssues, items |-> items]

ErrorBodies == {Body("object", FALSE, <<>>), Body("null", FALSE, <<>>),
                Body("invalid", FALSE, <<>>)}

JiraBodies ==
  {Body("object", TRUE, s) : s \in SeqsUpTo(IssueRecords, MaxItems)} \cup ErrorBodies

GithubBodies ==
  {Body("array", FALSE, s) : s \in SeqsUpTo(PullRequestRecords, MaxItems)} \cup ErrorBodies

Is2xx(status) == status >= 200 /\ status < 300

\* an answer is a 2xx status with any body, or an error status with a body
\* that is no result list
Responses(bodies) ==
  [status : {200}, body : bodies] \cup [status : {401}, body : ErrorBodies]

NoResp == [status |-> 0, body |-> Body("none", FALSE, <<>>)]
NoData == [type |-> "none", hasIssues |-> FALSE, items |-> <<>>]

\* JSON.parse: the value of a body text; "invalid" text makes it throw
ParseThrows(body) == body.json = "invalid"
JSONparse(body) == [type |-> body.json, hasIssues |-> body.hasIssues, items |-> body.items]

-----------------------------------------------------------------------------
(* Calls to the outside world *)

Call(op, arg) == [op |-> op, arg |-> arg]

\* System.displayNotification(title, message, sound)
Notification(title, message, sound) ==
  Call("displayNotification", [title |-> title, message |-> message, sound |-> sound])

StartedNotification ==
  Notification("Data Retrieval Started", <<"Fetching data from JIRA and GitHub...">>,
               Undefined)

CountOp(cs, op) == Cardinality({i \in 1..Len(cs) : cs[i].op = op})
IsNotification(c, title) == c.op = "displayNotification" /\ c.arg.title = title
CountNotifications(cs, title) ==
  Cardinality({i \in 1..Len(cs) : IsNotification(cs[i], title)})

-----------------------------------------------------------------------------
(* Keychain *)

\* what `security find-generic-password -w` prints when the item exists
StoredSecrets == {"tok", " tok ", " "}

\* String.prototype.trim on those
Trim(s) == IF s = " tok " THEN "tok" ELSE IF s = " " THEN "" ELSE s

MissingTokenError(side) ==
  IF side = "jira" THEN <<"No JIRA API token found in Keychain">>
  ELSE <<"No GitHub API token found in Keychain">>

\* the side whose client is asking for its token
Side == IF pc = "jiraToken" THEN "jira" ELSE "github"

Throw(e) == pc' = "catch" /\ error' = e

\* the caller of Keychain.getPassword without its `if (!token)`
TokenReturned_NoCheck(side, v) ==
  /\ token' = [token EXCEPT ![side] = v]
  /\ kc' = "idle"
  /\ pc' = IF side = "jira" THEN "jiraCurl" ELSE "githubCurl"
  /\ error' = error

\* Keychain.getPassword has returned v to getTickets / getPullRequests:
\* the `if (!token)` of the caller rejects, or the request is built
TokenReturned(side, v) ==
  /\ token' = [token EXCEPT ![side] = v]
  /\ kc' = "idle"
  /\ IF v = ""
     THEN Throw(MissingTokenError(side))
     ELSE /\ pc' = IF side = "jira" THEN "jiraCurl" ELSE "githubCurl"
          /\ error' = error

\* a Keychain.getPassword that throws when the lookup itself failed
GetPassword_RaisesOnDenied ==
  /\ pc \in {"jiraToken", "githubToken"}
  /\ kc = "idle"
  /\ calls' = Append(calls, Call("security find-generic-password", KeychainItem(Side)))
  /\ \E out \in {"found", "absent", "denied"} :
       /\ lookup' = [lookup EXCEPT ![Side] = out]
       /\ CASE out = "found" ->
                 /\ \E secret \in StoredSecrets : TokenReturned(Side, Trim(secret))
                 /\ kcOp' = kcOp
            [] out = "absent" ->
                 /\ kc' = "dialog1"
                 /\ kcOp' = "retrieve"
                 /\ UNCHANGED <<pc, token, error>>
            [] OTHER ->
                 /\ Throw(<<"Keychain lookup failed">>)
                 /\ UNCHANGED <<kc, kcOp, token>>
  /\ UNCHANGED <<options, config, jiraResp, githubResp, jiraData, githubData,
                 combinedData, savedFilePath, result, sh, suite>>

\* Keychain.getPassword: the lookup itself
GetPassword ==
  /\ pc \in {"jiraToken", "githubToken"}
  /\ kc = "idle"
  /\ calls' = Append(calls, Call("security find-generic-password", KeychainItem(Side)))
  /\ \E out \in {"found", "absent", "denied"} :
       /\ lookup' = [lookup EXCEPT ![Side] = out]
       /\ IF out = "found"
          THEN /\ \E secret \in StoredSecrets : TokenReturned(Side, Trim(secret))
               /\ kcOp' = kcOp
          ELSE /\ kc' = "dialog1"
               /\ kcOp' = "retrieve"
               /\ UNCHANGED <<pc, token, error>>
  /\ UNCHANGED <<options, config, jiraResp, githubResp, jiraData, githubData,
                 combinedData, savedFilePath, result, sh, suite>>

\* Keychain.showKeychainError: the first dialog.  A dialog returns the button
\* pressed or raises (the scripting bridge raises "User canceled." for a
\* cancelled dialog); what it raises leaves getPassword through its catch
\* block and reaches main.
ShowKeychainError ==
  /\ pc \in {"jiraToken", "githubToken"}
  /\ kc = "dialog1"
  /\ \E button \in {"Enter Token", "Cancel", "raise"} :
       CASE button = "Enter Token" ->
              /\ kc' = "dialog2"
              /\ UNCHANGED <<pc, token, error>>
         [] button = "Cancel" -> TokenReturned(Side, "")
         [] OTHER -> /\ Throw(<<"User canceled.">>)
                     /\ kc' = "idle"
                     /\ token' = token
  /\ UNCHANGED <<options, config, kcOp, lookup, jiraResp, githubResp, jiraData,
                 githubData, combinedData, savedFilePath, calls, result, sh, suite>>

\* Keychain.showKeychainError: the dialog asking for the token
EnterTokenDialog ==
  /\ pc \in {"jiraToken", "githubToken"}
  /\ kc = "dialog2"
  /\ \E button \in {"Save", "Cancel", "raise"} :
       CASE button = "Save" ->
              /\ kc' = "save"
              /\ UNCHANGED <<pc, token, error>>
         [] button = "Cancel" -> TokenReturned(Side, "")
         [] OTHER -> /\ Throw(<<"User canceled.">>)
                     /\ kc' = "idle"
                     /\ token' = token
  /\ UNCHANGED <<options, config, kcOp, lookup, jiraResp, githubResp, jiraData,
                 githubData, combinedData, savedFilePath, calls, result, sh, suite>>

\* Keychain.saveToken called by showKeychainError: stored (every pending
\* showKeychainError and saveToken returns, and getPassword returns ""), or
\* not stored (showKeychainError again, for "save")
SaveToken ==
  /\ pc \in {"jiraToken", "githubToken"}
  /\ kc = "save"
  /\ \E stored \in BOOLEAN :
       IF stored
       THEN /\ TokenReturned(Side, "")
            /\ kcOp' = kcOp
       ELSE /\ kc' = "dialog1"
            /\ kcOp' = "save"
            /\ UNCHANGED <<pc, token, error>>
  /\ UNCHANGED <<options, config, lookup, jiraResp, githubResp, jiraData,
                 githubData, combinedData, savedFilePath, calls, result, sh, suite>>

-----------------------------------------------------------------------------
(* JIRA and GitHub clients *)

FetchError(side, inner) ==
  IF side = "jira" THEN <<"Error fetching JIRA tickets: ", inner>>
  ELSE <<"Error fetching GitHub pull requests: ", inner>>

\* JIRA.getInstanceUrl: the scheme and host of CONFIG.jira.baseUrl
GetInstanceUrl == "https://jira.example.com"

\* JIRA.getTicketUrl
GetTicketUrl(ticketKey) == <<GetInstanceUrl, "/browse/", ticketKey>>

\* the request of JIRA.getTickets
JiraRequest == [url |-> <<CONFIG.jira.baseUrl, "search">>, bearer |-> token["jira"]]

\* the request of GitHub.getPullRequests(username, repo): each argument
\* falls back to its default when empty
GithubRequest(username, repo) ==
  [url |-> <<CONFIG.github.baseUrl, "repos/",
             IF Truthy(username) THEN username ELSE CONFIG.github.defaultUsername, "/",
             IF Truthy(repo) THEN repo ELSE CONFIG.github.defaultRepo,
             "/pulls?state=open">>,
   bearer |-> token["github"]]

\* JIRA.getTickets resolving with an empty object where it has to reject
JiraCurl_BestEffort ==
  /\ pc = "jiraCurl"
  /\ calls' = Append(calls, Call("curl", JiraRequest))
  /\ \/ /\ jiraResp' = NoResp
        /\ jiraData' = JSONparse(Body("object", FALSE, <<>>))
     \/ \E r \in Responses(JiraBodies) :
          /\ jiraResp' = r
          /\ jiraData' = IF ParseThrows(r.body) THEN JSONparse(Body("object", FALSE, <<>>))
                         ELSE JSONparse(r.body)
  /\ pc' = "openTickets"
  /\ UNCHANGED <<options, config, kc, kcOp, lookup, token, githubResp, githubData,
                 combinedData, savedFilePath, error, result, sh, suite>>

\* a getTickets whose failed request lets main go on to the code host
JiraCurl_GoesOnAfterFailure ==
  /\ pc = "jiraCurl"
  /\ calls' = Append(calls, Call("curl", JiraRequest))
  /\ \/ /\ jiraResp' = NoResp
        /\ pc' = "githubToken"
        /\ error' = error
        /\ jiraData' = jiraData
     \/ \E r \in Responses(JiraBodies) :
          /\ jiraResp' = r
          /\ IF ParseThrows(r.body)
             THEN /\ pc' = "githubToken"
                  /\ error' = error
                  /\ jiraData' = jiraData
             ELSE /\ jiraData' = JSONparse(r.body)
                  /\ pc' = "openTickets"
                  /\ error' = error
  /\ UNCHANGED <<options, config, kc, kcOp, lookup, token, githubResp, githubData,
                 combinedData, savedFilePath, result, sh, suite>>

\* JIRA.getTickets from the curl call on: `curl -s` ends normally whatever
\* the HTTP status is, and the body it printed is parsed; doShellScript
\* throws when curl itself fails (no connection)
JiraCurl ==
  /\ pc = "jiraCurl"
  /\ calls' = Append(calls, Call("curl", JiraRequest))
  /\ \/ /\ jiraResp' = NoResp
        /\ Throw(FetchError("jira", "curl failed"))
        /\ jiraData' = jiraData
     \/ \E r \in Responses(JiraBodies) :
          /\ jiraResp' = r
          /\ IF ParseThrows(r.body)
             THEN /\ Throw(FetchError("jira", "JSON Parse error"))
                  /\ jiraData' = jiraData
             ELSE /\ jiraData' = JSONparse(r.body)
                  /\ pc' = "openTickets"
                  /\ error' = error
  /\ UNCHANGED <<options, config, kc, kcOp, lookup, token, githubResp, githubData,
                 combinedData, savedFilePath, result, sh, suite>>

\* GitHub.getPullRequests resolving with an empty list where it has to reject
GithubCurl_BestEffort ==
  /\ pc = "githubCurl"
  /\ calls' = Append(calls, Call("curl", GithubRequest(config.githubUsername,
                                                       config.githubRepo)))
  /\ \/ /\ githubResp' = NoResp
        /\ githubData' = JSONparse(Body("array", FALSE, <<>>))
     \/ \E r \in Responses(GithubBodies) :
          /\ githubResp' = r
          /\ githubData' = IF ParseThrows(r.body) THEN JSONparse(Body("array", FALSE, <<>>))
                           ELSE JSONparse(r.body)
  /\ pc' = "openPullRequests"
  /\ UNCHANGED <<options, config, kc, kcOp, lookup, token, jiraResp, jiraData,
                 combinedData, savedFilePath, error, result, sh, suite>>

\* GitHub.getPullRequests from the curl call on
GithubCurl ==
  /\ pc = "githubCurl"
  /\ calls' = Append(calls, Call("curl", GithubRequest(config.githubUsername,
                                                       config.githubRepo)))
  /\ \/ /\ githubResp' = NoResp
        /\ Throw(FetchError("github", "curl failed"))
        /\ githubData' = githubData
     \/ \E r \in Responses(GithubBodies) :
          /\ githubResp' = r
          /\ IF ParseThrows(r.body)
             THEN /\ Throw(FetchError("github", "JSON Parse error"))
                  /\ githubData' = githubData
             ELSE /\ githubData' = JSONparse(r.body)
                  /\ pc' = "openPullRequests"
                  /\ error' = error
  /\ UNCHANGED <<options, config, kc, kcOp, lookup, token, jiraResp, jiraData,
                 combinedData, savedFilePath, result, sh, suite>>

-----------------------------------------------------------------------------
(* main *)

\* jiraData.issues is a list
HasIssues(data) == data.type = "object" /\ data.hasIssues

\* jiraData.issues || []
IssuesOrEmpty(data) == IF HasIssues(data) THEN data.items ELSE <<>>

\* main's ticketCount, as `${ticketCount}` prints it
TicketCount(data) == NumStr(Len(IssuesOrEmpty(data)))

\* `${githubData.length}`: only an array has a length
LengthText(data) == IF data.type = "array" THEN NumStr(Len(data.items)) ELSE Undefined

\* githubData.length > 0
LengthPositive(data) == data.type = "array" /\ Len(data.items) > 0

\* the calls a forEach over urls makes when every call up to the k-th
\* returns: all of them for k = Len(urls), and the k+1 first (the last of
\* which throws) for k < Len(urls)
OpenCalls(urls, k) ==
  [i \in 1..(IF k < Len(urls) THEN k + 1 ELSE k) |-> Call("openLocation", urls[i])]

\* the URLs main opens for the tickets
TicketUrls(cfg, data) ==
  IF cfg.openInBrowser /\ HasIssues(data) /\ Len(data.items) > 0
  THEN [i \in 1..Len(data.items) |-> GetTicketUrl(data.items[i].key)]
  ELSE <<>>

\* a check of html_url that lets every pull request through
HasUrl_Always(pr) == TRUE

HasUrl(pr) == Truthy(pr.html_url)

\* the pull requests opened without the `if (pr.html_url)`
PullRequestUrls_NoUrlCheck(cfg, data) ==
  IF cfg.openInBrowser /\ LengthPositive(data)
  THEN [i \in 1..Len(data.items) |-> <<data.items[i].html_url>>]
  ELSE <<>>

\* the URLs main opens for the pull requests
PullRequestUrls(cfg, data) ==
  IF cfg.openInBrowser /\ LengthPositive(data)
  THEN LET withUrl == SelectSeq(data.items, HasUrl)
       IN [i \in 1..Len(withUrl) |-> <<withUrl[i].html_url>>]
  ELSE <<>>

\* the start of main: the merge of the options and the first notification
Start ==
  /\ pc = "idle"
  /\ config' = MergeOptions(options)
  /\ calls' = Append(calls, StartedNotification)
  /\ pc' = "jiraToken"
  /\ UNCHANGED <<options, kc, kcOp, lookup, token, jiraResp, githubResp, jiraData,
                 githubData, combinedData, savedFilePath, error, result, sh, suite>>

\* after `await JIRA.getTickets()`: the count and the tickets opened in the
\* browser; reading .issues of null throws, and so does a failing openLocation
OpenTickets ==
  /\ pc = "openTickets"
  /\ IF jiraData.type = "null"
     THEN /\ Throw(<<"TypeError: null is not an object">>)
          /\ calls' = calls
     ELSE LET urls == TicketUrls(config, jiraData)
          IN \E k \in 0..Len(urls) :
               /\ calls' = calls \o OpenCalls(urls, k)
               /\ IF k < Len(urls)
                  THEN Throw(<<"openLocation failed">>)
                  ELSE pc' = "githubToken" /\ error' = error
  /\ UNCHANGED <<options, config, kc, kcOp, lookup, token, jiraResp, githubResp,
                 jiraData, githubData, combinedData, savedFilePath, result, sh, suite>>

\* after `await GitHub.getPullRequests(...)`: the pull requests opened in the
\* browser
OpenPullRequests ==
  /\ pc = "openPullRequests"
  /\ IF githubData.type = "null"
     THEN /\ Throw(<<"TypeError: null is not an object">>)
          /\ calls' = calls
     ELSE LET urls == PullRequestUrls(config, githubData)
          IN \E k \in 0..Len(urls) :
               /\ calls' = calls \o OpenCalls(urls, k)
               /\ IF k < Len(urls)
                  THEN Throw(<<"openLocation failed">>)
                  ELSE pc' = "assemble" /\ error' = error
  /\ UNCHANGED <<options, config, kc, kcOp, lookup, token, jiraResp, githubResp,
                 jiraData, githubData, combinedData, savedFilePath, result, sh, suite>>

\* what new Date().toISOString() may give
Clock == {"2025-01-01T00:00:00.000Z", "2025-06-30T12:00:00.000Z"}

\* a report that keeps the first of equal records only
CombinedData_DropsDuplicates(cfg, jira, github, now) ==
  LET Fresh(s) == [i \in 1..Len(s) |-> \A j \in 1..(i - 1) : s[j] # s[i]]
      Dedup(s) == LET keep == Fresh(s)
                      Kept(i) == Cardinality({j \in 1..i : keep[j]})
                      n == Kept(Len(s))
                  IN [m \in 1..n |-> s[CHOOSE i \in 1..Len(s) : keep[i] /\ Kept(i) = m]]
  IN [metadata |-> [generated |-> now,
                    jiraProject |-> CONFIG.jira.project,
                    githubRepo |-> <<cfg.githubUsername, "/", cfg.githubRepo>>],
      jiraTickets |-> Dedup(IssuesOrEmpty(jira)),
      githubPullRequests |-> [github EXCEPT !.items = Dedup(@)]]

\* a report whose list order depends on when it is built
CombinedData_ClockDependent(cfg, jira, github, now) ==
  LET Reverse(s) == [i \in 1..Len(s) |-> s[Len(s) + 1 - i]]
      Order(s) == IF now = "2025-01-01T00:00:00.000Z" THEN s ELSE Reverse(s)
  IN [metadata |-> [generated |-> now,
                    jiraProject |-> CONFIG.jira.project,
                    githubRepo |-> <<cfg.githubUsername, "/", cfg.githubRepo>>],
      jiraTickets |-> Order(IssuesOrEmpty(jira)),
      githubPullRequests |-> github]

\* main's combinedData
CombinedData(cfg, jira, github, now) ==
  [metadata |-> [generated |-> now,
                 jiraProject |-> CONFIG.jira.project,
                 githubRepo |-> <<cfg.githubUsername, "/", cfg.githubRepo>>],
   jiraTickets |-> IssuesOrEmpty(jira),
   githubPullRequests |-> github]

NoCombinedData ==
  [metadata |-> [generated |-> "", jiraProject |-> "", githubRepo |-> <<>>],
   jiraTickets |-> <<>>, githubPullRequests |-> NoData]

\* JSON.stringify(combinedData, null, 2)
Stringify(data) == <<"JSON", data>>

\* a slice that keeps the whole list
Slice_KeepsAll(s, n) == s

\* the first n elements of s (Array.prototype.slice(0, n))
Slice(s, n) == SubSeq(s, 1, IF Len(s) < n THEN Len(s) ELSE n)

\* the concatenation of the sequences of ss
RECURSIVE Flatten(_)
Flatten(ss) == IF ss = <<>> THEN <<>> ELSE Head(ss) \o Flatten(Tail(ss))

\* showRichSummaryNotification reads ticket.fields.summary of the tickets it
\* lists: a ticket without fields makes it throw
RichSummaryThrows(data) ==
  \E i \in 1..Len(Slice(data.jiraTickets, 3)) : ~data.jiraTickets[i].fields.present

\* a summary that leaves out a section that has nothing to list
SummaryText_SkipsEmptySection(data) ==
  LET tickets == data.jiraTickets
      jiraCount == Len(tickets)
      prs == data.githubPullRequests
      prCount == IF prs.type = "array" THEN Len(prs.items) ELSE 0
      jiraPart ==
        IF jiraCount > 0
        THEN <<"JIRA Tickets (", NumStr(jiraCount), "):\n">>
             \o Flatten([i \in 1..Len(Slice(tickets, 3)) |->
                           <<"* ", tickets[i].key, ": ", tickets[i].fields.summary, "\n">>])
             \o (IF jiraCount > 3
                 THEN <<"* ...and ", NumStr(jiraCount - 3), " more\n">> ELSE <<>>)
        ELSE <<>>
      prPart ==
        IF LengthPositive(prs)
        THEN <<"\nGitHub PRs (", NumStr(prCount), "):\n">>
             \o Flatten([i \in 1..Len(Slice(prs.items, 3)) |->
                           <<"* #", prs.items[i].number, ": ", prs.items[i].title, "\n">>])
             \o (IF prCount > 3
                 THEN <<"* ...and ", NumStr(prCount - 3), " more\n">> ELSE <<>>)
        ELSE <<>>
  IN jiraPart \o prPart

\* the summaryText of showRichSummaryNotification
SummaryText(data) ==
  LET tickets == data.jiraTickets
      jiraCount == Len(tickets)
      prs == data.githubPullRequests
      prCount == IF prs.type = "array" THEN Len(prs.items) ELSE 0
      jiraPart ==
        IF jiraCount > 0
        THEN <<"JIRA Tickets (", NumStr(jiraCount), "):\n">>
             \o Flatten([i \in 1..Len(Slice(tickets, 3)) |->
                           <<"* ", tickets[i].key, ": ", tickets[i].fields.summary, "\n">>])
             \o (IF jiraCount > 3
                 THEN <<"* ...and ", NumStr(jiraCount - 3), " more\n">> ELSE <<>>)
        ELSE <<"No JIRA tickets found.\n">>
      prPart ==
        IF LengthPositive(prs)
        THEN <<"\nGitHub PRs (", NumStr(prCount), "):\n">>
             \o Flatten([i \in 1..Len(Slice(prs.items, 3)) |->
                           <<"* #", prs.items[i].number, ": ", prs.items[i].title, "\n">>])
             \o (IF prCount > 3
                 THEN <<"* ...and ", NumStr(prCount - 3), " more\n">> ELSE <<>>)
        ELSE <<"\nNo GitHub pull requests found.">>
  IN jiraPart \o prPart

\* main builds the report and, when configured, shows the rich summary
Assemble ==
  /\ pc = "assemble"
  /\ \E now \in Clock :
       /\ combinedData' = CombinedData(config, jiraData, githubData, now)
       /\ IF config.richNotifications /\ ~config.summaryOnly
          THEN IF RichSummaryThrows(combinedData')
               THEN /\ Throw(<<"TypeError: undefined is not an object">>)
                    /\ calls' = calls
               ELSE /\ calls' = Append(calls, Notification("Summary",
                                                 SummaryText(combinedData'), "Glass"))
                    /\ pc' = "save"
                    /\ error' = error
          ELSE /\ calls' = calls
               /\ pc' = "save"
               /\ error' = error
  /\ UNCHANGED <<options, config, kc, kcOp, lookup, token, jiraResp, githubResp,
                 jiraData, githubData, savedFilePath, result, sh, suite>>

-----------------------------------------------------------------------------
(* System.saveDataToFile *)

\* a path as its "/"-separated segments
Segments(path) ==
  CASE path = "~/Documents/JIRA-GitHub-Data.json" -> <<"~", "Documents", "JIRA-GitHub-Data.json">>
    [] path = "/tmp/out.json" -> <<"", "tmp", "out.json">>
    [] path = "/tmp/jira-github-summary.json" -> <<"", "tmp", "jira-github-summary.json">>
    [] OTHER -> <<path>>

\* app.pathTo("home folder")
HomeFolder == <<"", "Users", "me">>

\* filePath.replace(/^~/, home)
ExpandPath(segs) ==
  IF segs # <<>> /\ Head(segs) = "~" THEN HomeFolder \o Tail(segs) ELSE segs

\* expandedPath.substring(0, expandedPath.lastIndexOf("/"))
DirPath(segs) == SubSeq(segs, 1, Len(segs) - 1)

\* a saveDataToFile that goes on with its commands after one of them failed
Attempted_KeepsGoing(s, k) == s

\* the calls of s made when the first k return: all of them for k = Len(s),
\* and the k+1 first (the last of which throws) for k < Len(s)
Attempted(s, k) == SubSeq(s, 1, IF k < Len(s) THEN k + 1 ELSE k)

\* a saveDataToFile that launches the viewer before it writes the file
SaveCommands_ViewerFirst(data, filePath, appName) ==
  LET expandedPath == ExpandPath(Segments(filePath))
  IN <<Call("mkdir -p", DirPath(expandedPath))>>
     \o (IF Truthy(appName)
         THEN <<Call("open -a", [app |-> appName, path |-> expandedPath])>>
         ELSE <<>>)
     \o <<Call("echo >", [path |-> expandedPath, data |-> data])>>

\* the shell commands of saveDataToFile(data, filePath, appName)
SaveCommands(data, filePath, appName) ==
  LET expandedPath == ExpandPath(Segments(filePath))
  IN <<Call("mkdir -p", DirPath(expandedPath)),
       Call("echo >", [path |-> expandedPath, data |-> data])>>
     \o (IF Truthy(appName)
         THEN <<Call("open -a", [app |-> appName, path |-> expandedPath])>>
         ELSE <<>>)

\* main saves the report: in summary-only mode without a viewer, and then
\* returns; otherwise with the viewer
SaveFile ==
  /\ pc = "save"
  /\ LET cmds == SaveCommands(Stringify(combinedData), config.outputFilePath,
                              IF config.summaryOnly THEN Undefined ELSE config.outputApp)
     IN \E k \in 0..Len(cmds) :
          /\ calls' = calls \o Attempted(cmds, k)
          /\ IF k < Len(cmds)
             THEN /\ Throw(<<"shell command failed: ", cmds[k + 1].op>>)
                  /\ UNCHANGED <<savedFilePath, result>>
             ELSE /\ error' = error
                  /\ IF config.summaryOnly
                     THEN /\ pc' = "done"
                          /\ result' = "resolved"
                          /\ savedFilePath' = savedFilePath
                     ELSE /\ pc' = "index"
                          /\ result' = result
                          /\ savedFilePath' = ExpandPath(Segments(config.outputFilePath))
  /\ UNCHANGED <<options, config, kc, kcOp, lookup, token, jiraResp, githubResp,
                 jiraData, githubData, combinedData, sh, suite>>

\* System.indexWithSpotlight(savedFilePath), when enabled; mdimport may fail
IndexWithSpotlight ==
  /\ pc = "index"
  /\ IF CONFIG.output.enableSpotlightIndexing
     THEN /\ calls' = Append(calls, Call("mdimport", savedFilePath))
          /\ \/ pc' = "complete" /\ error' = error
             \/ Throw(<<"shell command failed: ", "mdimport">>)
     ELSE /\ calls' = calls
          /\ pc' = "complete"
          /\ error' = error
  /\ UNCHANGED <<options, config, kc, kcOp, lookup, token, jiraResp, githubResp,
                 jiraData, githubData, combinedData, savedFilePath, result, sh, suite>>

\* the two counts of the success notification exchanged
CompleteNotification_Swapped(jira, github) ==
  Notification("Data Retrieval Complete",
               <<"Retrieved ", LengthText(github), " JIRA tickets and ",
                 TicketCount(jira), " GitHub pull requests.">>, "Glass")

CompleteNotification(jira, github) ==
  Notification("Data Retrieval Complete",
               <<"Retrieved ", TicketCount(jira), " JIRA tickets and ",
                 LengthText(github), " GitHub pull requests.">>, "Glass")

\* the success notification and the return of the report
Complete ==
  /\ pc = "complete"
  /\ calls' = Append(calls, CompleteNotification(jiraData, githubData))
  /\ pc' = "done"
  /\ result' = "resolved"
  /\ UNCHANGED <<options, config, kc, kcOp, lookup, token, jiraResp, githubResp,
                 jiraData, githubData, combinedData, savedFilePath, error, sh, suite>>

\* an error notification that does not say what failed
ErrorNotification_Generic(e) ==
  Notification("Error", <<"Failed to retrieve data: ">>, "Basso")

ErrorNotification(e) ==
  Notification("Error", <<"Failed to retrieve data: ">> \o e, "Basso")

\* the catch block of main: one notification, and the error thrown again
Catch ==
  /\ pc = "catch"
  /\ calls' = Append(calls, ErrorNotification(error))
  /\ pc' = "failed"
  /\ result' = "rejected"
  /\ UNCHANGED <<options, config, kc, kcOp, lookup, token, jiraResp, githubResp,
                 jiraData, githubData, combinedData, savedFilePath, error, sh, suite>>

-----------------------------------------------------------------------------
(* The run *)

NoOptions ==
  [githubUsername |-> Undefined, githubRepo |-> Undefined, openInBrowser |-> Undefined,
   outputFilePath |-> Undefined, outputApp |-> Undefined, summaryOnly |-> Undefined,
   richNotifications |-> Undefined]

\* the configuration file $CONFIG_FILE: the separator between a key and its
\* value on a line (empty when there is no file) and the four settings
ConfigFile(sep, username, repo, filePath, appName) ==
  [sep |-> sep, username |-> username, repo |-> repo, filePath |-> filePath,
   appName |-> appName]

NoConfigFile == ConfigFile("", "", "", "", "")

\* the variables of the wrapper script as it starts with the arguments argv,
\* with what osascript is given (script), the calls of main its evaluation
\* makes (mainCalls), how the calls made ended (outcomes) and the exit
\* status; with them the configuration file on disk (configFile), the
\* osascript command under way (command) and the mode actions entered so
\* far from the chain of `if` that follows load_config (performed)
ShellVars(argv) ==
  [phase |-> "parse", argv |-> argv,
   GITHUB_USER |-> "", GITHUB_REPO |-> "", OUTPUT_FILE |-> "", OUTPUT_APP |-> "",
   OPEN_BROWSER |-> TRUE, RUN_TESTS |-> FALSE, RUN_CONFIG |-> FALSE,
   SHOW_SUMMARY |-> FALSE, SHOW_MENU |-> FALSE,
   mode |-> "none", PARAMS |-> <<>>, script |-> <<>>, mainCalls |-> <<>>,
   outcomes |-> <<>>, EXIT_CODE |-> 0,
   configFile |-> NoConfigFile, command |-> "none", performed |-> <<>>]

\* main run on its own, without the wrapper
NoShell == [ShellVars(<<>>) EXCEPT !.phase = "none"]

\* the test suite as TestSuite.runAll is called with the mocks `setup`
\* creates (mocks) on a host whose console has or has not an `error`
\* function (consoleError): where it stands (at), results.tests,
\* results.success and results.error, how the promise of runAll settled, and
\* what was printed and written
TestRun(mocks, consoleError) ==
  [at |-> "testKeychain", mocks |-> mocks, consoleError |-> consoleError,
   tests |-> <<>>, success |-> TRUE, error |-> "", promise |-> "pending",
   log |-> <<>>]

\* no test suite is run
NoSuite == [at |-> "none"]

Init ==
  /\ pc = "idle"
  /\ options \in OptionSpace
  /\ config = NoConfig
  /\ kc = "idle"
  /\ kcOp = "none"
  /\ lookup = [s \in Sides |-> "none"]
  /\ token = [s \in Sides |-> Undefined]
  /\ jiraResp = NoResp
  /\ githubResp = NoResp
  /\ jiraData = NoData
  /\ githubData = NoData
  /\ combinedData = NoCombinedData
  /\ savedFilePath = <<>>
  /\ calls = <<>>
  /\ error = NoError
  /\ result = "pending"
  /\ sh = NoShell
  /\ suite = NoSuite

Next ==
  \/ Start
  \/ GetPassword
  \/ ShowKeychainError
  \/ EnterTokenDialog
  \/ SaveToken
  \/ JiraCurl
  \/ OpenTickets
  \/ GithubCurl
  \/ OpenPullRequests
  \/ Assemble
  \/ SaveFile
  \/ IndexWithSpotlight
  \/ Complete
  \/ Catch

Spec == Init /\ [][Next]_vars

-----------------------------------------------------------------------------
(* What a run did, read off the environment and the calls *)

Succeeded == result = "resolved"
Failed == pc = "failed"
Failing == pc \in {"catch", "failed"}

IsCurl(c, side) ==
  c.op = "curl" /\ c.arg.url[1] = (IF side = "jira" THEN CONFIG.jira.baseUrl
                                   ELSE CONFIG.github.baseUrl)
CurlCount(side) == Cardinality({i \in 1..Len(calls) : IsCurl(calls[i], side)})
LookupCount(side) ==
  Cardinality({i \in 1..Len(calls) :
                 /\ calls[i].op = "security find-generic-password"
                 /\ calls[i].arg = KeychainItem(side)})

Resp(side) == IF side = "jira" THEN jiraResp ELSE githubResp

\* the request of that side was made and answered with a body that parses
FetchSucceeded(side) ==
  CurlCount(side) > 0 /\ Resp(side) # NoResp /\ ~ParseThrows(Resp(side).body)

\* the fetch of that side is over and rejected: no credential, a dialog that
\* raised, a request that failed, or a body that does not parse
FetchFailed(side) ==
  \/ token[side] = ""
  \/ /\ lookup[side] \in {"absent", "denied"}
     /\ token[side] = Undefined
     /\ pc \notin {"jiraToken", "githubToken"}
  \/ /\ CurlCount(side) > 0
     /\ Resp(side) = NoResp \/ ParseThrows(Resp(side).body)

\* the issues, and the pull requests, of the upstream answers
UpstreamIssues ==
  IF jiraResp.body.json = "object" /\ jiraResp.body.hasIssues
  THEN jiraResp.body.items ELSE <<>>
UpstreamIsList == githubResp.body.json = "array"
UpstreamPullRequests == IF UpstreamIsList THEN githubResp.body.items ELSE <<>>

IsTicketOpen(c) == c.op = "openLocation" /\ Len(c.arg) = 3
IsPullRequestOpen(c) == c.op = "openLocation" /\ Len(c.arg) = 1
IsFileCall(c) == c.op \in {"mkdir -p", "echo >", "open -a", "mdimport"}
IsResultNotification(c) ==
  IsNotification(c, "Summary") \/ IsNotification(c, "Data Retrieval Complete")

-----------------------------------------------------------------------------
(* C1 *)

\* C1: when the issue fetch succeeded and the change-request fetch failed,
\* the run fails (it never resolves, and it ends rejected with the error of
\* that fetch) and nothing of System.saveDataToFile was executed.
C1_NoPartialWrite ==
  FetchSucceeded("jira") /\ FetchFailed("github") =>
    /\ Failing
    /\ ~Succeeded
    /\ Failed => result = "rejected"
    /\ \A i \in 1..Len(calls) : ~IsFileCall(calls[i])

C1_Witness ==
  /\ Failed
  /\ FetchSucceeded("jira")
  /\ Len(UpstreamIssues) = 2
  /\ CurlCount("github") = 1
  /\ githubResp = NoResp

(* C2 *)

C3_SummaryOnlyQuiet ==
  Succeeded /\ config.summaryOnly =>
    /\ CountOp(calls, "openLocation") = 0
    /\ CountOp(calls, "open -a") = 0
    /\ CountOp(calls, "mdimport") = 0
    /\ CountOp(calls, "echo >") = 1

(* C4 *)

C5_Non2xxFails ==
  Succeeded =>
    \A side \in Sides : Is2xx(Resp(side).status) /\ ~ParseThrows(Resp(side).body)

(* C6 *)

SinkErrors == {<<"openLocation failed">>, <<"shell command failed: ", "mdimport">>}

\* C6: an openLocation or an mdimport that fails never fails the run: the
\* run is not rejected with that error and no failure notification is made.
C6_SinkFailureSwallowed ==
  error \in SinkErrors =>
    /\ ~Failed
    /\ result # "rejected"
    /\ CountNotifications(calls, "Error") = 0

(* C7 *)

\* C7: a run that failed has made exactly one failure notification, its last
\* call, carrying the message of the error main rejects with; a run that has
\* not failed has made none; no lookup and no request is made twice.
C7_OneFailureNotification ==
  /\ Failed =>
       /\ result = "rejected"
       /\ error # NoError
       /\ CountNotifications(calls, "Error") = 1
       /\ calls[Len(calls)] =
            Notification("Error", <<"Failed to retrieve data: ">> \o error, "Basso")
  /\ ~Failed => CountNotifications(calls, "Error") = 0 /\ result # "rejected"
  /\ \A side \in Sides : CurlCount(side) <= 1 /\ LookupCount(side) <= 1

C7_Witness ==
  /\ Failed
  /\ FetchSucceeded("jira")
  /\ error = FetchError("github", "JSON Parse error")
  /\ CountNotifications(calls, "Error") = 1

(* C8 *)

CompleteMessages ==
  {calls[i].arg.message : i \in {j \in 1..Len(calls) :
                                   IsNotification(calls[j], "Data Retrieval Complete")}}

C9_ReportPreservesUpstream ==
  Succeeded =>
    /\ combinedData.jiraTickets = UpstreamIssues
    /\ UpstreamIsList =>
         /\ combinedData.githubPullRequests.type = "array"
         /\ combinedData.githubPullRequests.items = UpstreamPullRequests

C9_Witness ==
  /\ Succeeded
  /\ Len(UpstreamIssues) = 2
  /\ UpstreamIssues[1].key = "PROJ-2"
  /\ UpstreamIssues[2].key = "PROJ-1"
  /\ Len(UpstreamPullRequests) = 2
  /\ UpstreamPullRequests[1] = UpstreamPullRequests[2]
  /\ combinedData.jiraTickets = UpstreamIssues
  /\ combinedData.githubPullRequests.items = UpstreamPullRequests

(* C10 *)

OpenedUrls == SelectSeq(calls, LAMBDA c : c.op = "openLocation")

\* C10: a successful run with openInBrowser=true and summaryOnly=false
\* opens one URL per issue, in order, then one per change-request that has a
\* URL, in order, and nothing else; it writes the file once and calls the
\* indexer once.
C10_UrlOpensAndWrites ==
  Succeeded /\ config.openInBrowser /\ ~config.summaryOnly =>
    /\ LET withUrl == SelectSeq(UpstreamPullRequests, HasUrl)
       IN /\ CountOp(calls, "openLocation") = Len(UpstreamIssues) + Len(withUrl)
          /\ \A i \in 1..Len(UpstreamIssues) :
               OpenedUrls[i].arg = GetTicketUrl(UpstreamIssues[i].key)
          /\ \A i \in 1..Len(withUrl) :
               OpenedUrls[Len(UpstreamIssues) + i].arg = <<withUrl[i].html_url>>
    /\ CountOp(calls, "echo >") = 1
    /\ CountOp(calls, "mdimport") = 1

C10_Witness ==
  /\ Succeeded
  /\ config.openInBrowser
  /\ ~config.summaryOnly
  /\ Len(UpstreamIssues) = 2
  /\ UpstreamIssues[1].key # UpstreamIssues[2].key
  /\ Len(UpstreamPullRequests) = 2
  /\ HasUrl(UpstreamPullRequests[1])
  /\ ~HasUrl(UpstreamPullRequests[2])
  /\ CountOp(calls, "openLocation") = 3
  /\ CountOp(calls, "echo >") = 1
  /\ CountOp(calls, "mdimport") = 1

(* C11 *)

\* the errors of the two commands that write the file
WriteErrors ==
  {<<"shell command failed: ", "mkdir -p">>, <<"shell command failed: ", "echo >">>}

\* C11: when a command writing the file fails, the run fails with that
\* error (it never resolves, and once failed it is rejected after exactly one
\* failure notification, its last call, carrying the error), and no viewer
\* is launched, no indexer called and no completion notification made.
C11_FileWriteFailureFails ==
  error \in WriteErrors =>
    /\ Failing
    /\ ~Succeeded
    /\ Failed =>
         /\ result = "rejected"
         /\ CountNotifications(calls, "Error") = 1
         /\ calls[Len(calls)] = ErrorNotification(error)
    /\ CountOp(calls, "open -a") = 0
    /\ CountOp(calls, "mdimport") = 0
    /\ CountNotifications(calls, "Data Retrieval Complete") = 0

C11_Witness ==
  /\ Failed
  /\ error = <<"shell command failed: ", "echo >">>
  /\ ~config.summaryOnly
  /\ config.outputApp = "TextEdit"
  /\ CountOp(calls, "mkdir -p") = 1
  /\ CountOp(calls, "echo >") = 1
  /\ CountNotifications(calls, "Error") = 1

(* C12 *)

\* both upstreams answered with an empty list
BothEmpty ==
  /\ FetchSucceeded("jira")
  /\ FetchSucceeded("github")
  /\ jiraResp.body.json = "object" /\ jiraResp.body.hasIssues
  /\ UpstreamIssues = <<>>
  /\ UpstreamIsList
  /\ UpstreamPullRequests = <<>>

SummaryMessages ==
  {calls[i].arg.message : i \in {j \in 1..Len(calls) : IsNotification(calls[j], "Summary")}}

\* the errors of the commands of saveDataToFile and indexWithSpotlight
DeliveryErrors ==
  WriteErrors \cup {<<"shell command failed: ", "open -a">>,
                    <<"shell command failed: ", "mdimport">>}

\* C12: when the tracker answers with zero issues and the code host with
\* zero change-requests, the emptiness is no error (such a run fails only
\* when a command of the file delivery fails, and otherwise resolves), and
\* the rich summary, once shown, has the "none found" line of both sections.
C12_EmptyResultsSucceed ==
  BothEmpty =>
    /\ Failing => error \in DeliveryErrors
    /\ pc = "done" => Succeeded
    /\ SummaryMessages \subseteq
         {<<"No JIRA tickets found.\n", "\nNo GitHub pull requests found.">>}
    /\ config.richNotifications /\ ~config.summaryOnly
         /\ pc \in {"save", "index", "complete", "done"}
         => CountNotifications(calls, "Summary") = 1

C12_Witness ==
  /\ BothEmpty
  /\ Succeeded
  /\ ~config.summaryOnly
  /\ SummaryMessages = {<<"No JIRA tickets found.\n", "\nNo GitHub pull requests found.">>}
  /\ CountNotifications(calls, "Data Retrieval Complete") = 1

-----------------------------------------------------------------------------
(* showRichSummaryNotification on its own, over longer lists *)

\* longest list of a report handed to showRichSummaryNotification
MaxSummaryItems == 4

\* the well-formed issue records of those reports
SummaryIssueRecords ==
  {Issue("PROJ-1", TRUE, "first"), Issue("PROJ-3", TRUE, "third"),
   Issue("PROJ-2", FALSE, Undefined)}

\* the reports: an issue list, and a pull request list or an object that is
\* no list
SummaryReports ==
  {CombinedData(NoConfig, JSONparse(Body("object", TRUE, is)), prs,
                "2025-01-01T00:00:00.000Z") :
     is \in SeqsUpTo(SummaryIssueRecords, MaxSummaryItems),
     prs \in {JSONparse(Body("array", FALSE, s)) :
                s \in SeqsUpTo(PullRequestRecords, MaxSummaryItems)}
             \cup {JSONparse(Body("object", FALSE, <<>>))}}

SummaryInit ==
  /\ pc = "summary"
  /\ combinedData \in SummaryReports
  /\ options = NoOptions
  /\ config = NoConfig
  /\ kc = "idle"
  /\ kcOp = "none"
  /\ lookup = [s \in Sides |-> "none"]
  /\ token = [s \in Sides |-> Undefined]
  /\ jiraResp = NoResp
  /\ githubResp = NoResp
  /\ jiraData = NoData
  /\ githubData = NoData
  /\ savedFilePath = <<>>
  /\ calls = <<>>
  /\ error = NoError
  /\ result = "pending"
  /\ sh = NoShell
  /\ suite = NoSuite

\* showRichSummaryNotification(combinedData): the notification, or the
\* TypeError of a ticket without fields
ShowRichSummaryNotification ==
  /\ pc = "summary"
  /\ IF RichSummaryThrows(combinedData)
     THEN /\ error' = <<"TypeError: undefined is not an object">>
          /\ pc' = "thrown"
          /\ calls' = calls
     ELSE /\ calls' = Append(calls, Notification("Summary", SummaryText(combinedData),
                                                 "Glass"))
          /\ pc' = "shown"
          /\ error' = error
  /\ UNCHANGED <<options, config, kc, kcOp, lookup, token, jiraResp, githubResp,
                 jiraData, githubData, combinedData, savedFilePath, result, sh, suite>>

SummaryNext == ShowRichSummaryNotification

SummarySpec == SummaryInit /\ [][SummaryNext]_vars

(* C13 *)

\* the texts that follow the pieces of msg equal to bullet, in order
Listed(msg, bullet) ==
  LET at == SelectSeq([i \in 1..(Len(msg) - 1) |-> i], LAMBDA i : msg[i] = bullet)
  IN [k \in 1..Len(at) |-> msg[at[k] + 1]]

AtMost3(n) == IF n > 3 THEN 3 ELSE n

\* C13: in the rich summary each section lists min(count, 3) items, the
\* first ones of the list, in its order, and has one "...and N more" line,
\* with N = count - 3, exactly when count > 3.
C13_SummaryListsFirstThree ==
  pc = "shown" =>
    LET msg == calls[Len(calls)].arg.message
        tickets == combinedData.jiraTickets
        prs == combinedData.githubPullRequests.items
        n == Len(tickets)
        m == Len(prs)
    IN /\ Listed(msg, "* ") = [i \in 1..AtMost3(n) |-> tickets[i].key]
       /\ Listed(msg, "* #") = [i \in 1..AtMost3(m) |-> prs[i].number]
       /\ Listed(msg, "* ...and ") =
            (IF n > 3 THEN <<NumStr(n - 3)>> ELSE <<>>)
            \o (IF m > 3 THEN <<NumStr(m - 3)>> ELSE <<>>)

C13_Witness ==
  /\ pc = "shown"
  /\ Len(combinedData.jiraTickets) = 4
  /\ combinedData.jiraTickets[1].key = "PROJ-3"
  /\ combinedData.jiraTickets[2].key = "PROJ-1"
  /\ Len(combinedData.githubPullRequests.items) = 4
  /\ combinedData.githubPullRequests.items[1].number = "2"
  /\ Listed(calls[1].arg.message, "* ") = <<"PROJ-3", "PROJ-1", "PROJ-1">>
  /\ Listed(calls[1].arg.message, "* ...and ") = <<"1", "1">>

-----------------------------------------------------------------------------
(* C14 *)

\* C14: a parseable answer that does not meet the field contract (an issue
\* without its fields, a code host answer that is no list) is rejected as an
\* upstream error and fails the run: a run that resolves had no such answer,
\* and no record without fields and no "undefined" count is in its report or
\* its notifications.
C14_MalformedRejected ==
  Succeeded =>
    /\ \A i \in 1..Len(UpstreamIssues) : UpstreamIssues[i].fields.present
    /\ UpstreamIsList
    /\ \A i \in 1..Len(combinedData.jiraTickets) :
         combinedData.jiraTickets[i].fields.present
    /\ combinedData.githubPullRequests.type = "array"
    /\ \A m \in CompleteMessages : m[4] # "undefined"

(* C15 *)

\* Keychain.getPassword was called for that side and is over
GetPasswordOver(side) ==
  lookup[side] # "none" /\ ~(pc \in {"jiraToken", "githubToken"} /\ Side = side)

\* it returned v
GetPasswordReturned(side, v) == GetPasswordOver(side) /\ token[side] = v

\* it threw e, which reached the catch block of main
GetPasswordRaised(side, e) ==
  /\ GetPasswordOver(side)
  /\ token[side] = Undefined
  /\ Failing
  /\ error = e

-----------------------------------------------------------------------------
(* The merge of the options, over every shape of the options object *)

\* a text option is not given, given empty, or given
AllOptions ==
  [githubUsername : {Undefined, "", "octo"},
   githubRepo : {Undefined, "", "hello"},
   openInBrowser : OptBool,
   outputFilePath : {Undefined, "", "/tmp/out.json"},
   outputApp : {Undefined, "", "Preview"},
   summaryOnly : OptBool,
   richNotifications : OptBool]

ConfigInit ==
  /\ pc = "idle"
  /\ options \in AllOptions
  /\ config = NoConfig
  /\ kc = "idle"
  /\ kcOp = "none"
  /\ lookup = [s \in Sides |-> "none"]
  /\ token = [s \in Sides |-> Undefined]
  /\ jiraResp = NoResp
  /\ githubResp = NoResp
  /\ jiraData = NoData
  /\ githubData = NoData
  /\ combinedData = NoCombinedData
  /\ savedFilePath = <<>>
  /\ calls = <<>>
  /\ error = NoError
  /\ result = "pending"
  /\ sh = NoShell
  /\ suite = NoSuite

\* main up to its first notification
ConfigNext == Start

ConfigSpec == ConfigInit /\ [][ConfigNext]_vars

(* C20 *)

\* C20: the configuration main works with takes each text option that is
\* given and not empty, and otherwise the default of CONFIG (myusername,
\* myrepo, ~/Documents/JIRA-GitHub-Data.json, TextEdit); openInBrowser and
\* richNotifications are true unless given as false, and summaryOnly is false
\* unless given as true.
C20_EffectiveConfiguration ==
  pc # "idle" =>
    LET Or(v, default) == IF v \in {Undefined, ""} THEN default ELSE v
    IN /\ config.githubUsername = Or(options.githubUsername, "myusername")
       /\ config.githubRepo = Or(options.githubRepo, "myrepo")
       /\ config.outputFilePath =
            Or(options.outputFilePath, "~/Documents/JIRA-GitHub-Data.json")
       /\ config.outputApp = Or(options.outputApp, "TextEdit")
       /\ config.openInBrowser = (options.openInBrowser # "false")
       /\ config.richNotifications = (options.richNotifications # "false")
       /\ config.summaryOnly = (options.summaryOnly = "true")

C20_Witness ==
  /\ pc = "jiraToken"
  /\ options.githubUsername = ""
  /\ options.githubRepo = "hello"
  /\ options.outputApp = Undefined
  /\ options.openInBrowser = "false"
  /\ options.richNotifications = "false"
  /\ config.githubUsername = "myusername"
  /\ config.githubRepo = "hello"
  /\ config.outputApp = "TextEdit"
  /\ ~config.openInBrowser
  /\ ~config.richNotifications

-----------------------------------------------------------------------------
(* Keychain.saveToken called on its own *)

\* how many times the store is written in one call before it is left alone
MaxSaveAttempts == 3

\* the tokens handed to saveToken and typed into the dialog
TokenTexts == {"tok", "new"}

AddPassword(side, secret, ok) ==
  Call("security add-generic-password",
       [item |-> KeychainItem(side), secret |-> secret, exit |-> IF ok THEN 0 ELSE 1])

\* one call of Keychain.saveToken(serviceName, token) is under way
SaveTokenInit ==
  /\ pc = "saveToken"
  /\ kc = "save"
  /\ kcOp = "none"
  /\ options = NoOptions
  /\ config = NoConfig
  /\ lookup = [s \in Sides |-> "none"]
  /\ token = [s \in Sides |-> Undefined]
  /\ jiraResp = NoResp
  /\ githubResp = NoResp
  /\ jiraData = NoData
  /\ githubData = NoData
  /\ combinedData = NoCombinedData
  /\ savedFilePath = <<>>
  /\ calls = <<>>
  /\ error = NoError
  /\ result = "pending"
  /\ sh = NoShell
  /\ suite = NoSuite

\* the try block of saveToken, in the call itself (for any service name and
\* token) and in the calls showKeychainError makes with the text typed into
\* its dialog.  The call itself returns true when its command succeeds; when
\* the command of a nested call succeeds, that call returns true to
\* showKeychainError, which returns, and every pending saveToken goes on to
\* its `return false`.  A command that fails leads to showKeychainError.
SaveTokenWrite ==
  /\ pc = "saveToken"
  /\ kc = "save"
  /\ CountOp(calls, "security add-generic-password") < MaxSaveAttempts
  /\ \E side \in Sides, secret \in TokenTexts, ok \in BOOLEAN :
       /\ calls # <<>> => calls[1].arg.item = KeychainItem(side)
       /\ calls' = Append(calls, AddPassword(side, secret, ok))
       /\ IF ok
          THEN /\ pc' = "returned"
               /\ result' = IF calls = <<>> THEN "true" ELSE "false"
               /\ kc' = "idle"
               /\ kcOp' = kcOp
          ELSE /\ kc' = "dialog1"
               /\ kcOp' = "save"
               /\ UNCHANGED <<pc, result>>
  /\ UNCHANGED <<options, config, lookup, token, jiraResp, githubResp, jiraData,
                 githubData, combinedData, savedFilePath, error, sh, suite>>

\* what a dialog of showKeychainError does to the call of saveToken: the
\* next step, the end of showKeychainError (saveToken returns false), or an
\* error raised, which nothing between the dialog and the caller catches
SaveTokenDialog(next) ==
  /\ \E button \in {"go on", "Cancel", "raise"} :
       CASE button = "go on" ->
              /\ kc' = next
              /\ UNCHANGED <<pc, result, error>>
         [] button = "Cancel" ->
              /\ kc' = "idle"
              /\ pc' = "returned"
              /\ result' = "false"
              /\ error' = error
         [] OTHER ->
              /\ kc' = "idle"
              /\ pc' = "raised"
              /\ result' = "raised"
              /\ error' = <<"User canceled.">>
  /\ UNCHANGED <<options, config, kcOp, lookup, token, jiraResp, githubResp,
                 jiraData, githubData, combinedData, savedFilePath, calls, sh, suite>>

\* the first dialog of showKeychainError ("Enter Token" goes on)
SaveTokenErrorDialog ==
  /\ pc = "saveToken"
  /\ kc = "dialog1"
  /\ SaveTokenDialog("dialog2")

\* the dialog asking for the token ("Save" goes on)
SaveTokenEnterDialog ==
  /\ pc = "saveToken"
  /\ kc = "dialog2"
  /\ SaveTokenDialog("save")

SaveTokenNext ==
  \/ SaveTokenWrite
  \/ SaveTokenErrorDialog
  \/ SaveTokenEnterDialog

SaveTokenSpec == SaveTokenInit /\ [][SaveTokenNext]_vars

(* C16 *)

\* a secret was stored under the service name during the call
SecretStored == \E i \in 1..Len(calls) : calls[i].arg.exit = 0

\* C16: a call of Keychain.saveToken never raises, and it returns true
\* when the secret was stored and false otherwise.
C16_SaveTokenNeverRaises ==
  pc \in {"returned", "raised"} =>
    /\ pc = "returned"
    /\ result \in {"true", "false"}
    /\ result = "true" <=> SecretStored

-----------------------------------------------------------------------------
(* The wrapper script jira-github-integration.sh *)

\* A behaviour of WrapperSpec is an invocation of the wrapper on a machine
\* without a configuration file, and the invocations that follow it.  The calls
\* of main that the script given to osascript makes are followed with the
\* actions of main above, one call after the other: the calls share no
\* variable of the script, and how many there are, what each opens and how
\* each ends does not depend on how they interleave at their awaits.

\* the command lines the wrapper is started with
ArgLists ==
  {<<>>, <<"-n">>, <<"-u", "octo", "-r", "hello">>,
   <<"-o", "/tmp/out.json", "-a", "Preview", "-n">>,
   <<"-s">>, <<"-t">>, <<"-c">>, <<"-m">>, <<"-s", "-t">>, <<"-h">>, <<"--bogus">>,
   <<"-m", "-c">>, <<"-c", "-h">>, <<"-t", "--bogus">>}

\* the while/case loop over the arguments
RECURSIVE ParseArgs(_, _)
ParseArgs(v, argv) ==
  IF argv = <<>> THEN [v EXCEPT !.phase = "load"]
  ELSE LET key == Head(argv)
           value == IF Len(argv) >= 2 THEN argv[2] ELSE ""
           rest1 == Tail(argv)
           rest2 == IF Len(argv) >= 2 THEN Tail(Tail(argv)) ELSE <<>>
       IN CASE key \in {"-h", "--help"} -> [v EXCEPT !.phase = "exited", !.EXIT_CODE = 0]
            [] key \in {"-u", "--github-user"} ->
                 ParseArgs([v EXCEPT !.GITHUB_USER = value], rest2)
            [] key \in {"-r", "--github-repo"} ->
                 ParseArgs([v EXCEPT !.GITHUB_REPO = value], rest2)
            [] key \in {"-o", "--output-file"} ->
                 ParseArgs([v EXCEPT !.OUTPUT_FILE = value], rest2)
            [] key \in {"-a", "--app"} ->
                 ParseArgs([v EXCEPT !.OUTPUT_APP = value], rest2)
            [] key \in {"-n", "--no-browser"} ->
                 ParseArgs([v EXCEPT !.OPEN_BROWSER = FALSE], rest1)
            [] key \in {"-t", "--test"} -> ParseArgs([v EXCEPT !.RUN_TESTS = TRUE], rest1)
            [] key \in {"-c", "--configure"} ->
                 ParseArgs([v EXCEPT !.RUN_CONFIG = TRUE], rest1)
            [] key \in {"-s", "--summary"} ->
                 ParseArgs([v EXCEPT !.SHOW_SUMMARY = TRUE], rest1)
            [] key \in {"-m", "--menu"} -> ParseArgs([v EXCEPT !.SHOW_MENU = TRUE], rest1)
            [] OTHER -> [v EXCEPT !.phase = "exited", !.EXIT_CODE = 1]

\* what the user types in the wizard: a user name, a repository and a path,
\* and nothing for the application
WizardAnswers ==
  {[github_username |-> "mona", github_repo |-> "spoon",
    output_path |-> "/tmp/saved.json", output_app |-> ""]}

\* the file `cat > "$CONFIG_FILE" << EOF` writes: its lines have the form
\* "key": "value", and an answer left empty has its default
WizardFile(a) ==
  LET Default(answer, d) == IF answer = "" THEN d ELSE answer
  IN ConfigFile(": ", a.github_username, a.github_repo,
                Default(a.output_path, "~/Documents/JIRA-GitHub-Data.json"),
                Default(a.output_app, "TextEdit"))

\* grep -o '"key":"[^"]*"' | cut -d':' -f2 | tr -d '"': the value of the key
\* when nothing but the colon stands between the key and the value
SavedValue(file, key) == IF file.sep = ":" THEN file[key] ELSE ""

\* load_config: a saved value is used where the command line gave none
LoadedConfig(v, file) ==
  LET Pick(given, saved) == IF given = "" /\ saved # "" THEN saved ELSE given
  IN IF file.sep = "" THEN v
     ELSE [v EXCEPT !.GITHUB_USER = Pick(@, SavedValue(file, "username")),
                    !.GITHUB_REPO = Pick(@, SavedValue(file, "repo")),
                    !.OUTPUT_FILE = Pick(@, SavedValue(file, "filePath")),
                    !.OUTPUT_APP = Pick(@, SavedValue(file, "appName"))]

\* the statements of the text given to osascript
Stmt(kind, field, value) == [kind |-> kind, field |-> field, value |-> value]
DeclareOptions == Stmt("const options = {};", "", "")
SetOption(field, value) == Stmt("options.field = value;", field, value)
MainWithOptions == Stmt("main(options);", "", "")

\* the script file: its definitions, and at its end the call of main under
\* `typeof module === 'undefined' || !module.parent`
ScriptFile == <<Stmt("if (run directly) main();", "", "")>>

\* the PARAMS of the default run
BuildParams(v) ==
  LET Add(params, given, field, value) ==
        IF given
        THEN (IF params = <<>> THEN <<DeclareOptions>> ELSE params)
             \o <<SetOption(field, value)>>
        ELSE params
      p1 == Add(<<>>, v.GITHUB_USER # "", "githubUsername", v.GITHUB_USER)
      p2 == Add(p1, v.GITHUB_REPO # "", "githubRepo", v.GITHUB_REPO)
      p3 == Add(p2, v.OUTPUT_FILE # "", "outputFilePath", v.OUTPUT_FILE)
      p4 == Add(p3, v.OUTPUT_APP # "", "outputApp", v.OUTPUT_APP)
      p5 == Add(p4, ~v.OPEN_BROWSER, "openInBrowser", "false")
  IN IF p5 # <<>> THEN p5 \o <<MainWithOptions>> ELSE p5

\* the PARAMS of show_summary
SummaryParams ==
  <<DeclareOptions, SetOption("openInBrowser", "false"),
    SetOption("outputFilePath", "/tmp/jira-github-summary.json"),
    SetOption("summaryOnly", "true"), MainWithOptions>>

\* the calls of main made when osascript evaluates the statements, each
\* with the options object it is given: under osascript there is no
\* `module`, so the call at the end of the script file is made
RECURSIVE MainCalls(_, _)
MainCalls(stmts, opts) ==
  IF stmts = <<>> THEN <<>>
  ELSE LET s == Head(stmts)
       IN CASE s = DeclareOptions -> MainCalls(Tail(stmts), NoOptions)
            [] s = MainWithOptions -> <<opts>> \o MainCalls(Tail(stmts), opts)
            [] s \in Range(ScriptFile) -> <<NoOptions>> \o MainCalls(Tail(stmts), opts)
            [] OTHER -> MainCalls(Tail(stmts), [opts EXCEPT ![s.field] = s.value])

\* how a call of main ended: its promise, and the number of URLs it opened
Outcome(r, opened) == [result |-> r, opened |-> opened]

WrapperInit ==
  /\ sh \in {ShellVars(argv) : argv \in ArgLists}
  /\ suite = NoSuite
  /\ pc = "none"
  /\ options = NoOptions
  /\ config = NoConfig
  /\ kc = "idle"
  /\ kcOp = "none"
  /\ lookup = [s \in Sides |-> "none"]
  /\ token = [s \in Sides |-> Undefined]
  /\ jiraResp = NoResp
  /\ githubResp = NoResp
  /\ jiraData = NoData
  /\ githubData = NoData
  /\ combinedData = NoCombinedData
  /\ savedFilePath = <<>>
  /\ calls = <<>>
  /\ error = NoError
  /\ result = "pending"

MainVars ==
  <<pc, options, config, kc, kcOp, lookup, token, jiraResp, githubResp, jiraData,
    githubData, combinedData, savedFilePath, calls, error, result>>

\* the argument loop: it ends the wrapper for -h and for an unknown option
ParseArguments ==
  /\ sh.phase = "parse"
  /\ sh' = ParseArgs(sh, sh.argv)
  /\ UNCHANGED <<MainVars, suite>>

\* load_config
LoadConfig ==
  /\ sh.phase = "load"
  /\ sh' = [LoadedConfig(sh, sh.configFile) EXCEPT !.phase = "dispatch"]
  /\ UNCHANGED <<MainVars, suite>>

\* the chain of `if` with the tests asked for before the summary
Dispatch_TestsBeforeSummary ==
  /\ sh.phase = "dispatch"
  /\ sh' = [sh EXCEPT !.mode = CASE sh.RUN_CONFIG -> "configure"
                                 [] sh.SHOW_MENU -> "menu"
                                 [] sh.RUN_TESTS -> "test"
                                 [] sh.SHOW_SUMMARY -> "summary"
                                 [] OTHER -> "run",
                      !.phase = "mode"]
  /\ UNCHANGED <<MainVars, suite>>

\* the chain of `if` that picks what the wrapper does
Dispatch ==
  /\ sh.phase = "dispatch"
  /\ sh' = [sh EXCEPT !.mode = CASE sh.RUN_CONFIG -> "configure"
                                 [] sh.SHOW_MENU -> "menu"
                                 [] sh.SHOW_SUMMARY -> "summary"
                                 [] sh.RUN_TESTS -> "test"
                                 [] OTHER -> "run",
                      !.phase = "mode"]
  /\ UNCHANGED <<MainVars, suite>>

\* an osascript command is started in the background: the text it is given
\* and the calls of main its evaluation makes
Osascript(v, command, params) ==
  [v EXCEPT !.command = command, !.PARAMS = params, !.script = ScriptFile \o params,
            !.mainCalls = MainCalls(ScriptFile \o params, NoOptions),
            !.outcomes = <<>>, !.phase = "osascript"]

\* the default run and show_summary up to their osascript command
RunOsascript ==
  /\ sh.phase = "mode"
  /\ sh.mode \in {"run", "summary"}
  /\ sh' = IF sh.mode = "run"
           THEN Osascript([sh EXCEPT !.performed = Append(@, "run")],
                          "run", BuildParams(sh))
           ELSE Osascript([sh EXCEPT !.performed = Append(@, "show_summary")],
                          "show_summary", SummaryParams)
  /\ UNCHANGED <<MainVars, suite>>

\* run_configuration_wizard: the answers are read and the file is written;
\* the tokens it may store go to the keychain, whose lookups are the
\* environment of main
Wizard(v, a) == [v EXCEPT !.configFile = WizardFile(a)]

\* -c / --configure: the wizard, then `exit 0`
RunConfigurationWizard ==
  /\ sh.phase = "mode"
  /\ sh.mode = "configure"
  /\ \E a \in WizardAnswers :
       sh' = [Wizard(sh, a) EXCEPT !.performed = Append(@, "run_configuration_wizard"),
                                   !.EXIT_CODE = 0, !.phase = "exited"]
  /\ UNCHANGED <<MainVars, suite>>

\* the status osascript ends the test script with
TestStatuses == {0, 1}

\* -t / --test: the test script is run and its status is the exit status
RunTests ==
  /\ sh.phase = "mode"
  /\ sh.mode = "test"
  /\ \E status \in TestStatuses :
       sh' = [sh EXCEPT !.performed = Append(@, "tests"), !.EXIT_CODE = status,
                        !.phase = "exited"]
  /\ UNCHANGED <<MainVars, suite>>

\* the choices of the menu: the nine entries and any other answer; the
\* tests (6), the check of the stored tokens (7) and the help (8) change no
\* variable of the wrapper
MenuChoices == {"1", "2", "3", "4", "5", "6", "7", "8", "9", "other"}

\* the PARAMS of the menu entries 3 and 4, with what the user types
CustomRepositoryParams ==
  <<DeclareOptions, SetOption("githubUsername", "octo"),
    SetOption("githubRepo", "hello"), MainWithOptions>>

CustomOutputParams ==
  <<DeclareOptions, SetOption("outputFilePath", "/tmp/out.json"),
    SetOption("outputApp", "Preview"), MainWithOptions>>

\* -m / --menu: show_interactive_menu shows the entries and the user picks
\* one; every entry but Exit ends with the menu shown again, which is the
\* same mode action going on
ShowInteractiveMenu ==
  /\ sh.phase = "mode"
  /\ sh.mode = "menu"
  /\ \E choice \in MenuChoices, a \in WizardAnswers :
       LET v == [sh EXCEPT !.performed =
                             IF @ = <<>> THEN <<"show_interactive_menu">> ELSE @]
       IN sh' = CASE choice = "1" -> Osascript(v, "fetch", <<>>)
                  [] choice = "2" -> Osascript(v, "show_summary", SummaryParams)
                  [] choice = "3" -> Osascript(v, "fetch", CustomRepositoryParams)
                  [] choice = "4" -> Osascript(v, "fetch", CustomOutputParams)
                  [] choice = "5" -> Wizard(v, a)
                  [] choice = "9" -> [v EXCEPT !.EXIT_CODE = 0, !.phase = "exited"]
                  [] OTHER -> v
  /\ UNCHANGED <<MainVars, suite>>

\* a call of main begins
CallMain ==
  /\ sh.phase = "osascript"
  /\ pc = "none"
  /\ Len(sh.outcomes) < Len(sh.mainCalls)
  /\ pc' = "idle"
  /\ options' = sh.mainCalls[Len(sh.outcomes) + 1]
  /\ UNCHANGED <<config, kc, kcOp, lookup, token, jiraResp, githubResp, jiraData,
                 githubData, combinedData, savedFilePath, calls, error, result, sh, suite>>

\* a call of main is over
MainSettled ==
  /\ sh.phase = "osascript"
  /\ pc \in {"done", "failed"}
  /\ sh' = [sh EXCEPT !.outcomes =
                        Append(@, Outcome(result, CountOp(calls, "openLocation")))]
  /\ pc' = "none"
  /\ options' = NoOptions
  /\ config' = NoConfig
  /\ kc' = "idle"
  /\ kcOp' = "none"
  /\ lookup' = [s \in Sides |-> "none"]
  /\ token' = [s \in Sides |-> Undefined]
  /\ jiraResp' = NoResp
  /\ githubResp' = NoResp
  /\ jiraData' = NoData
  /\ githubData' = NoData
  /\ combinedData' = NoCombinedData
  /\ savedFilePath' = <<>>
  /\ calls' = <<>>
  /\ error' = NoError
  /\ result' = "pending"
  /\ UNCHANGED suite

\* the status osascript ends with: the text was evaluated, so 0; the promise
\* of a call of main that rejected is neither awaited nor caught by the
\* script, and whether the host turns it into a non-zero status is its choice
ExitStatuses(outcomes) ==
  IF \E i \in 1..Len(outcomes) : outcomes[i].result = "rejected" THEN {0, 1} ELSE {0}

\* `wait $PID; EXIT_CODE=$?` and what follows: the default run exits with
\* EXIT_CODE, and show_summary exits with it when it is not 0 and is followed
\* by `exit 0` otherwise; in the menu the script goes back to the menu, but
\* for a show_summary that exits
WaitAndExit ==
  /\ sh.phase = "osascript"
  /\ pc = "none"
  /\ Len(sh.outcomes) = Len(sh.mainCalls)
  /\ \E status \in ExitStatuses(sh.outcomes) :
       sh' = IF sh.mode = "menu" /\ ~(sh.command = "show_summary" /\ status # 0)
             THEN [sh EXCEPT !.phase = "mode"]
             ELSE [sh EXCEPT !.EXIT_CODE = status, !.phase = "exited"]
  /\ UNCHANGED <<MainVars, suite>>

\* a later invocation of the wrapper, with the configuration file the
\* earlier ones left
InvokeAgain ==
  /\ sh.phase = "exited"
  /\ sh' \in {[ShellVars(argv) EXCEPT !.configFile = sh.configFile] : argv \in ArgLists}
  /\ UNCHANGED <<MainVars, suite>>

WrapperNext ==
  \/ ParseArguments
  \/ LoadConfig
  \/ Dispatch
  \/ RunOsascript
  \/ RunConfigurationWizard
  \/ RunTests
  \/ ShowInteractiveMenu
  \/ CallMain
  \/ MainSettled
  \/ WaitAndExit
  \/ InvokeAgain
  \/ Start
  \/ GetPassword
  \/ ShowKeychainError
  \/ EnterTokenDialog
  \/ SaveToken
  \/ JiraCurl
  \/ OpenTickets
  \/ GithubCurl
  \/ OpenPullRequests
  \/ Assemble
  \/ SaveFile
  \/ IndexWithSpotlight
  \/ Complete
  \/ Catch

WrapperSpec == WrapperInit /\ [][WrapperNext]_vars

(* C17 *)

\* the calls of main begun so far in this invocation
RunsStarted == Len(sh.outcomes) + (IF pc = "none" THEN 0 ELSE 1)

\* C17: an invocation in the default run mode runs main exactly once,
\* with or without -u, -r, -o, -a, -n: no second call of main begins, and
\* the wrapper has run it once when it exits.
C17_MainRunsOnce ==
  sh.mode = "run" =>
    /\ RunsStarted <= 1
    /\ sh.phase = "exited" => Len(sh.outcomes) = 1

(* C18 *)

\* C18: in an invocation with -n / --no-browser no URL is opened, whatever
\* the upstreams answer.
C18_NoBrowserOpensNothing ==
  sh.phase # "none" /\ ~sh.OPEN_BROWSER =>
    /\ CountOp(calls, "openLocation") = 0
    /\ \A i \in 1..Len(sh.outcomes) : sh.outcomes[i].opened = 0

(* C19 *)

\* C19: in the default run mode the wrapper exits with 0 when the run of
\* main it asked for (the last call of the text given to osascript) resolved,
\* and with a non-zero status when it rejected.
C19_ExitCodeReflectsRun ==
  sh.mode = "run" /\ sh.phase = "exited" =>
    (sh.EXIT_CODE = 0 <=> sh.outcomes[Len(sh.outcomes)].result = "resolved")

-----------------------------------------------------------------------------
(* C23 *)

PullRequestOpens == SelectSeq(calls, IsPullRequestOpen)
TicketOpens == SelectSeq(calls, IsTicketOpen)

\* the pull requests of the code host answer that carry an html_url
UpstreamWithUrl == SelectSeq(UpstreamPullRequests, LAMBDA pr : pr.html_url # Undefined)

\* main is past the loop over the pull requests
PastPullRequests == pc \in {"assemble", "save", "index", "complete", "done"}

\* C23: a pull request without html_url is skipped: no URL-open call is
\* ever made for it, the loop does not throw because of it (with a browser
\* that opens every URL it is given the loop is always passed), and past the
\* loop every issue and every pull request that has a URL was opened, in
\* order; such a run can resolve.
C23_MissingUrlSkipped ==
  /\ \A i \in 1..Len(calls) : calls[i].op = "openLocation" => calls[i].arg # <<Undefined>>
  /\ pc = "catch" /\ FetchSucceeded("github") /\ UpstreamIsList
       /\ CountOp(calls, "mkdir -p") = 0 /\ error # <<"openLocation failed">>
       => error = <<"TypeError: undefined is not an object">>
  /\ PastPullRequests /\ config.openInBrowser /\ UpstreamIsList =>
       /\ Len(PullRequestOpens) = Len(UpstreamWithUrl)
       /\ \A i \in 1..Len(UpstreamWithUrl) :
            PullRequestOpens[i].arg = <<UpstreamWithUrl[i].html_url>>
       /\ Len(TicketOpens) = Len(UpstreamIssues)
       /\ \A i \in 1..Len(UpstreamIssues) :
            TicketOpens[i].arg = GetTicketUrl(UpstreamIssues[i].key)

C23_Witness ==
  /\ Succeeded
  /\ config.openInBrowser
  /\ Len(UpstreamIssues) = 1
  /\ Len(UpstreamPullRequests) = 2
  /\ UpstreamPullRequests[1].html_url = Undefined
  /\ UpstreamPullRequests[2].html_url # Undefined
  /\ Len(TicketOpens) = 1
  /\ Len(PullRequestOpens) = 1
  /\ PullRequestOpens[1].arg = <<UpstreamPullRequests[2].html_url>>

(* C26 *)

\* C26: after a failed lookup Keychain.getPassword returns the empty string
\* whatever happens in the dialogs (a token typed and stored included), and
\* the fetch of that side makes no request and fails with the missing-token
\* error.
C26_LookupFailureReturnsEmpty ==
  \A side \in Sides :
    lookup[side] \in {"absent", "denied"} /\ GetPasswordOver(side) =>
      /\ token[side] = ""
      /\ CurlCount(side) = 0
      /\ Failing
      /\ error = MissingTokenError(side)

(* C27 *)

\* C27: the change-request fetch starts only after the issue fetch
\* succeeded: a keychain lookup or a request for the code host is made only
\* then, and a run whose issue fetch failed fails without either.
C27_GithubAfterJira ==
  /\ LookupCount("github") > 0 \/ CurlCount("github") > 0 \/ lookup["github"] # "none"
       => FetchSucceeded("jira") /\ ~FetchFailed("jira")
  /\ FetchFailed("jira") =>
       /\ Failing
       /\ LookupCount("github") = 0
       /\ CurlCount("github") = 0
       /\ githubResp = NoResp

C27_Witness ==
  /\ Failed
  /\ CurlCount("jira") = 1
  /\ jiraResp.status = 200
  /\ ParseThrows(jiraResp.body)
  /\ error = FetchError("jira", "JSON Parse error")
  /\ LookupCount("github") = 0
  /\ CurlCount("github") = 0

(* C28 *)

\* the position in calls of the one call of that command
CallAt(op) == CHOOSE i \in 1..Len(calls) : calls[i].op = op

\* C28: in a successful run with summaryOnly=false the "started"
\* notification is the first call, before every lookup and request; the file
\* is written before the viewer is launched, and the viewer before the
\* indexer, which is given the expanded path the file was written to; the
\* completion notification is the last call.
C28_SinkOrder ==
  Succeeded /\ ~config.summaryOnly =>
    /\ calls[1] = StartedNotification
    /\ CountNotifications(calls, "Data Retrieval Started") = 1
    /\ CountOp(calls, "echo >") = 1
    /\ CountOp(calls, "open -a") = 1
    /\ CountOp(calls, "mdimport") = 1
    /\ CallAt("mkdir -p") < CallAt("echo >")
    /\ CallAt("echo >") < CallAt("open -a")
    /\ CallAt("open -a") < CallAt("mdimport")
    /\ calls[CallAt("mdimport")].arg = calls[CallAt("echo >")].arg.path
    /\ calls[CallAt("mdimport")].arg = calls[CallAt("open -a")].arg.path
    /\ calls[CallAt("mdimport")].arg = ExpandPath(Segments(config.outputFilePath))
    /\ CallAt("mdimport") = Len(calls) - 1
    /\ IsNotification(calls[Len(calls)], "Data Retrieval Complete")

C28_Witness ==
  /\ Succeeded
  /\ ~config.summaryOnly
  /\ options.outputFilePath = Undefined
  /\ CountOp(calls, "openLocation") = 2
  /\ calls[CallAt("mdimport")].arg = <<"", "Users", "me", "Documents", "JIRA-GitHub-Data.json">>
  /\ calls[CallAt("open -a")].arg.app = "TextEdit"
  /\ IsNotification(calls[Len(calls)], "Data Retrieval Complete")

(* C22 *)

\* the report without its timestamp
Undated(report) == [report EXCEPT !.metadata.generated = ""]

\* the report main has to build from its options and the two answers
ReportOf(o, jira, github) ==
  [metadata |->
     [generated |-> "",
      jiraProject |-> "MyProject",
      githubRepo |-> <<IF o.githubUsername \in {Undefined, ""} THEN "myusername"
                       ELSE o.githubUsername,
                       "/",
                       IF o.githubRepo \in {Undefined, ""} THEN "myrepo"
                       ELSE o.githubRepo>>],
   jiraTickets |-> IF jira.body.json = "object" /\ jira.body.hasIssues
                   THEN jira.body.items ELSE <<>>,
   githubPullRequests |-> [type |-> github.body.json, hasIssues |-> github.body.hasIssues,
                           items |-> github.body.items]]

\* C22: the report of a run is a function of the options and of the two
\* upstream answers, but for its generated timestamp, and so is the text
\* written to the file: two runs with the same options and the same answers
\* build the same report up to that field.
C22_ReportDeterminedByInputs ==
  /\ combinedData # NoCombinedData =>
       /\ Undated(combinedData) = ReportOf(options, jiraResp, githubResp)
       /\ combinedData.metadata.generated \in Clock
  /\ \A i \in 1..Len(calls) :
       calls[i].op = "echo >" =>
         /\ calls[i].arg.data[1] = "JSON"
         /\ Undated(calls[i].arg.data[2]) = ReportOf(options, jiraResp, githubResp)

C22_Witness ==
  /\ Succeeded
  /\ combinedData.metadata.generated = "2025-06-30T12:00:00.000Z"
  /\ Len(combinedData.jiraTickets) = 2
  /\ combinedData.jiraTickets[1] # combinedData.jiraTickets[2]
  /\ Len(combinedData.githubPullRequests.items) = 1
  /\ CountOp(calls, "echo >") = 1

-----------------------------------------------------------------------------
(* The legacy script JIRAGitHubIntegrationShortcut.js: getGithubPullRequests *)

\* `if (!username || !repo)`: both arguments are replaced together
LegacyRepository(username, repo) ==
  IF ~Truthy(username) \/ ~Truthy(repo)
  THEN [username |-> "myusername", repo |-> "myrepo"]
  ELSE [username |-> username, repo |-> repo]

\* the request of the legacy getGithubPullRequests
LegacyGithubRequest(username, repo, bearer) ==
  LET used == LegacyRepository(username, repo)
  IN [url |-> <<"https://api.github.com/", "repos/", used.username, "/", used.repo,
                "/pulls?state=open">>,
      bearer |-> bearer]

\* getGithubPullRequests(username, repo) is called with each argument
\* missing, empty or given
LegacyInit ==
  /\ pc = "legacy"
  /\ options \in {[NoOptions EXCEPT !.githubUsername = u, !.githubRepo = r] :
                    u \in {Undefined, "", "octo"}, r \in {Undefined, "", "hello"}}
  /\ config = NoConfig
  /\ kc = "idle"
  /\ kcOp = "none"
  /\ lookup = [s \in Sides |-> "none"]
  /\ token = [s \in Sides |-> Undefined]
  /\ jiraResp = NoResp
  /\ githubResp = NoResp
  /\ jiraData = NoData
  /\ githubData = NoData
  /\ combinedData = NoCombinedData
  /\ savedFilePath = <<>>
  /\ calls = <<>>
  /\ error = NoError
  /\ result = "pending"
  /\ sh = NoShell
  /\ suite = NoSuite

\* the legacy getGithubPullRequests: the defaults, the token read with
\* getPasswordFromKeychain (the empty string when the lookup fails), the
\* request, and the promise resolved with the parsed body or rejected
LegacyGetGithubPullRequests ==
  /\ pc = "legacy"
  /\ pc' = "settled"
  /\ \E out \in {"found", "absent"} :
       /\ lookup' = [lookup EXCEPT !["github"] = out]
       /\ \E secret \in StoredSecrets :
            token' = [token EXCEPT !["github"] = IF out = "found" THEN Trim(secret) ELSE ""]
  /\ calls' = <<Call("security find-generic-password", KeychainItem("github")),
                Call("curl", LegacyGithubRequest(options.githubUsername, options.githubRepo,
                                                 token'["github"]))>>
  /\ \/ /\ githubResp' = NoResp
        /\ error' = FetchError("github", "curl failed")
        /\ result' = "rejected"
        /\ githubData' = githubData
     \/ \E r \in Responses(GithubBodies) :
          /\ githubResp' = r
          /\ IF ParseThrows(r.body)
             THEN /\ error' = FetchError("github", "JSON Parse error")
                  /\ result' = "rejected"
                  /\ githubData' = githubData
             ELSE /\ githubData' = JSONparse(r.body)
                  /\ result' = "resolved"
                  /\ error' = error
  /\ UNCHANGED <<options, config, kc, kcOp, jiraResp, jiraData, combinedData,
                 savedFilePath, sh, suite>>

LegacyNext == LegacyGetGithubPullRequests

LegacySpec == LegacyInit /\ [][LegacyNext]_vars

(* C24 *)

\* C24: the legacy getGithubPullRequests requests the username it is given
\* when that is not empty, and the repository it is given when that is not
\* empty; each is replaced by its default only when it is itself empty or
\* missing.
C24_LegacyDefaultsIndependent ==
  pc = "settled" =>
    LET url == calls[Len(calls)].arg.url
    IN /\ url[3] = IF options.githubUsername \in {Undefined, ""} THEN "myusername"
                   ELSE options.githubUsername
       /\ url[5] = IF options.githubRepo \in {Undefined, ""} THEN "myrepo"
                   ELSE options.githubRepo

-----------------------------------------------------------------------------
(* C25 *)

\* a run that goes on as long as it can: the script is one thread that
\* never waits for anything but the call it is in, and every dialog is
\* answered
FairSpec == Spec /\ WF_vars(Next)

\* C25: every call of Keychain.getPassword, with the showKeychainError and
\* saveToken calls it leads to, comes to an end, whatever the keychain does
\* and whatever the user answers.
C25_KeychainTerminates == (kc # "idle") ~> (kc = "idle")


-----------------------------------------------------------------------------
(* C21 *)

\* the words of a command line that stand where an option is read: every
\* word but the value that follows -u, -r, -o or -a
ValueOptions ==
  {"-u", "--github-user", "-r", "--github-repo", "-o", "--output-file", "-a", "--app"}

OptionAt(argv, i) == i = 1 \/ argv[i - 1] \notin ValueOptions

Given(argv, names) == \E i \in 1..Len(argv) : OptionAt(argv, i) /\ argv[i] \in names

\* the value the command line gives for a setting, empty when it gives none
GivenValue(argv, names) ==
  IF \E i \in 1..(Len(argv) - 1) : OptionAt(argv, i) /\ argv[i] \in names
  THEN LET i == CHOOSE j \in 1..(Len(argv) - 1) : OptionAt(argv, j) /\ argv[j] \in names
       IN argv[i + 1]
  ELSE ""

SavedOrGiven(argv, names, saved) ==
  IF GivenValue(argv, names) # "" THEN GivenValue(argv, names) ELSE saved

\* C21: in an invocation that finds the file the wizard wrote, load_config
\* leaves each of the four settings with the value given on the command line
\* and, where none is given, with the value the wizard saved.
C21_SavedSettingsRoundTrip ==
  sh.phase = "dispatch" /\ sh.configFile # NoConfigFile =>
    /\ sh.GITHUB_USER =
         SavedOrGiven(sh.argv, {"-u", "--github-user"}, sh.configFile.username)
    /\ sh.GITHUB_REPO =
         SavedOrGiven(sh.argv, {"-r", "--github-repo"}, sh.configFile.repo)
    /\ sh.OUTPUT_FILE =
         SavedOrGiven(sh.argv, {"-o", "--output-file"}, sh.configFile.filePath)
    /\ sh.OUTPUT_APP =
         SavedOrGiven(sh.argv, {"-a", "--app"}, sh.configFile.appName)


(* C29 *)

HelpOptions == {"-h", "--help"}

KnownOptions ==
  ValueOptions \cup HelpOptions \cup
  {"-n", "--no-browser", "-t", "--test", "-c", "--configure", "-s", "--summary",
   "-m", "--menu"}

\* the first word of the command line that ends the argument loop: a help
\* option or an unknown option; 0 when there is none
FirstStop(argv) ==
  LET Stops == {i \in 1..Len(argv) :
                  OptionAt(argv, i) /\ (argv[i] \in HelpOptions \/ argv[i] \notin KnownOptions)}
  IN IF Stops = {} THEN 0 ELSE CHOOSE i \in Stops : \A j \in Stops : i <= j

StoppedByHelp(argv) == FirstStop(argv) # 0 /\ argv[FirstStop(argv)] \in HelpOptions
StoppedByUnknown(argv) == FirstStop(argv) # 0 /\ argv[FirstStop(argv)] \notin HelpOptions

\* a mode flag is on the command line
ModeFlagGiven(argv) ==
  Given(argv, {"-c", "--configure", "-m", "--menu", "-s", "--summary", "-t", "--test"})

\* the mode action the priority asks for
ModeAction(argv) ==
  CASE Given(argv, {"-c", "--configure"}) -> "run_configuration_wizard"
    [] Given(argv, {"-m", "--menu"}) -> "show_interactive_menu"
    [] Given(argv, {"-s", "--summary"}) -> "show_summary"
    [] Given(argv, {"-t", "--test"}) -> "tests"
    [] OTHER -> "run"

\* C29 as stated: an invocation with an unknown option exits with 1 and has
\* done nothing, and every other invocation, when it exits, has performed
\* exactly one mode action, the one the priority asks for.
C29_Original ==
  sh.phase = "exited" =>
    IF StoppedByUnknown(sh.argv)
    THEN sh.performed = <<>> /\ sh.EXIT_CODE = 1
    ELSE /\ sh.performed # <<>>
         /\ sh.performed = <<ModeAction(sh.argv)>>

\* C29: the argument loop ends the wrapper at the first help option (exit 0)
\* or unknown option (exit 1), before any action; every other invocation
\* enters exactly one mode action, chosen by the priority configure > menu >
\* summary > test > default run (what the user picks inside the menu belongs
\* to the menu), and the default run is never started when a mode flag is
\* given.
C29_ModeByPriority ==
  /\ sh.performed # <<>> =>
       /\ FirstStop(sh.argv) = 0
       /\ sh.performed = <<ModeAction(sh.argv)>>
  /\ ModeFlagGiven(sh.argv) => sh.command # "run" /\ "run" \notin Range(sh.performed)
  /\ sh.phase = "exited" =>
       CASE StoppedByUnknown(sh.argv) -> sh.performed = <<>> /\ sh.EXIT_CODE = 1
         [] StoppedByHelp(sh.argv) -> sh.performed = <<>> /\ sh.EXIT_CODE = 0
         [] OTHER -> sh.performed # <<>>

C29_Witness ==
  /\ sh.phase = "exited"
  /\ sh.argv = <<"-s", "-t">>
  /\ sh.performed = <<"show_summary">>
  /\ Len(sh.outcomes) = 2


-----------------------------------------------------------------------------
(* The test suite tests/test-integration.js *)

\* longest list of issues and of pull requests a mock is set up with
MaxMockItems == 2

\* what the mocks of `setup` return: the token of keychain.getPassword, the
\* number of issues of jira.getTickets, the number of pull requests of
\* github.getPullRequests and the path of system.saveDataToFile
MockSetup ==
  [token |-> "mock-token", issues |-> 2, pulls |-> 2, filePath |-> "/tmp/output.json"]

\* the setup of the suite, and the setups an edit of the mock data gives
MockSetups ==
  [token : {"mock-token", ""}, issues : 0..MaxMockItems, pulls : 0..MaxMockItems,
   filePath : {"/tmp/output.json", ""}]

\* the names the test script defines or finds defined by the host when
\* osascript runs it; MAIN_SCRIPT_PATH is a string the script never loads
Globals ==
  {"Application", "app", "MAIN_SCRIPT_PATH", "MOCK_DATA", "TestUtils", "TestSuite",
   "console", "JSON", "Promise", "Array"}

\* the error of a reference to a name that is not defined
ReferenceError(name) == "ReferenceError: Can't find variable: " \o name

\* the error of a call of console.error on a host that has none
NoConsoleError == "TypeError: console.error is not a function"

TestInit ==
  /\ suite \in {TestRun(m, c) : m \in MockSetups, c \in BOOLEAN}
  /\ sh = NoShell
  /\ pc = "none"
  /\ options = NoOptions
  /\ config = NoConfig
  /\ kc = "idle"
  /\ kcOp = "none"
  /\ lookup = [s \in Sides |-> "none"]
  /\ token = [s \in Sides |-> Undefined]
  /\ jiraResp = NoResp
  /\ githubResp = NoResp
  /\ jiraData = NoData
  /\ githubData = NoData
  /\ combinedData = NoCombinedData
  /\ savedFilePath = <<>>
  /\ calls = <<>>
  /\ error = NoError
  /\ result = "pending"

\* results.tests[name] = await this.test...(): every test returns its
\* result, with success false where its own catch block took an error
TestDone(name, success, next) ==
  /\ suite' = [suite EXCEPT !.tests = Append(@, [name |-> name, success |-> success]),
                            !.at = next]
  /\ UNCHANGED <<MainVars, sh>>

TestKeychain ==
  /\ suite.at = "testKeychain"
  /\ TestDone("keychainTest", suite.mocks.token = "mock-token", "testJiraIntegration")

TestJiraIntegration ==
  /\ suite.at = "testJiraIntegration"
  /\ TestDone("jiraTest", suite.mocks.issues = 2, "testGithubIntegration")

TestGithubIntegration ==
  /\ suite.at = "testGithubIntegration"
  /\ TestDone("githubTest", suite.mocks.pulls = 2, "testSystemIntegration")

TestSystemIntegration ==
  /\ suite.at = "testSystemIntegration"
  /\ TestDone("systemTest", suite.mocks.filePath # "", "testMainFunction")

TestMainFunction ==
  /\ suite.at = "testMainFunction"
  /\ TestDone("mainTest", suite.mocks.issues = 2 /\ suite.mocks.pulls = 2, "check")

\* the loop over results.tests, then System.displayNotification and
\* `return results`
RunAllCheck ==
  /\ suite.at = "check"
  /\ LET success == \A i \in 1..Len(suite.tests) : suite.tests[i].success
         checked == [suite EXCEPT !.success = success]
     IN suite' = IF "System" \in Globals
                 THEN [checked EXCEPT
                         !.log = Append(@, IF success THEN "All Tests Passed"
                                                      ELSE "Test Failures"),
                         !.promise = "resolved", !.at = "settled"]
                 ELSE [checked EXCEPT !.error = ReferenceError("System"),
                                      !.at = "catch"]
  /\ UNCHANGED <<MainVars, sh>>

\* the catch block of runAll: console.error, results.success = false,
\* results.error, System.displayNotification and `return results`
RunAllCatch ==
  /\ suite.at = "catch"
  /\ suite' =
       IF ~suite.consoleError
       THEN [suite EXCEPT !.error = NoConsoleError, !.promise = "rejected",
                          !.at = "settled"]
       ELSE LET caught == [suite EXCEPT !.log = Append(@, "Test suite error"),
                                        !.success = FALSE]
            IN IF "System" \in Globals
               THEN [caught EXCEPT !.log = Append(@, "Test Suite Error"),
                                   !.promise = "resolved", !.at = "settled"]
               ELSE [caught EXCEPT !.error = ReferenceError("System"),
                                   !.promise = "rejected", !.at = "settled"]
  /\ UNCHANGED <<MainVars, sh>>

\* TestSuite.runAll().then(...).catch(...): the results are printed and
\* handed to TestUtils.writeResults, whose doShellScript writes them or
\* throws, or the error is printed
RunnerSettled ==
  /\ suite.at = "settled"
  /\ \E written \in BOOLEAN :
       suite' =
         IF suite.promise = "resolved"
         THEN [suite EXCEPT !.log = Append(Append(@, "All tests completed"),
                                           IF written THEN "writeResults"
                                           ELSE "Test runner error"),
                            !.at = "end"]
         ELSE [suite EXCEPT !.log = Append(@, "Test runner error"), !.at = "end"]
  /\ UNCHANGED <<MainVars, sh>>

TestNext ==
  \/ TestKeychain
  \/ TestJiraIntegration
  \/ TestGithubIntegration
  \/ TestSystemIntegration
  \/ TestMainFunction
  \/ RunAllCheck
  \/ RunAllCatch
  \/ RunnerSettled

TestSpec == TestInit /\ [][TestNext]_vars

(* C30 *)

\* the five tests have all reported success
AllTestsSucceeded ==
  /\ Len(suite.tests) = 5
  /\ \A i \in 1..Len(suite.tests) : suite.tests[i].success

\* C30: the promise of TestSuite.runAll is never rejected; when it is
\* resolved the success flag of the results is true exactly when the five
\* tests reported success; and when the runner is over the results have been
\* handed to TestUtils.writeResults.
C30_RunAllResolvesAndWrites ==
  /\ suite.promise # "rejected"
  /\ suite.promise = "resolved" => (suite.success <=> AllTestsSucceeded)
  /\ suite.at = "end" =>
       \E i \in 2..Len(suite.log) : /\ suite.log[i - 1] = "All tests completed"
                                    /\ suite.log[i] \in {"writeResults", "Test runner error"}

====
